---- MODULE Spec2Model ----
(***************************************************************************)
(* Host <-> embed messaging over window.postMessage:                       *)
(*   host side   useIframeMessaging         (hooks/useIframeMessaging.ts)   *)
(*   embed side  useIframeContentMessaging  (hooks/useIframeContentMessaging.ts) *)
(*   shared      utils/iframeMessaging.ts                                   *)
(* One host hook instance and one embed hook instance are modelled; every  *)
(* other frame or pair on the page appears as foreign message events.      *)
(***************************************************************************)
EXTENDS Integers, Sequences, FiniteSets, TLC

\* ---------------------------------------------------------------- bounds
MaxRequests == 2      \* sendRequest calls per behaviour
MaxQueue == 1         \* message events in flight per direction
MaxTasks == 1         \* embed handler invocations awaiting their result
TickMs == 5000        \* granularity of the clock
MaxClock == 5000      \* last instant of the clock
MaxDeferred == 1      \* scheduled zero-delay notifications not yet run
MaxInitTimers == 1    \* armed 100 ms init timers at the moment the frame loads again

\* ------------------------------------------------------ program constants
DefaultTimeoutMs == 5000
DefaultHeight == 300

\* ------------------------------------------------------------ JS values
Undefined == "undefined"
Null == "null"
Wildcard == "*"

HostOrigin == "https://host.example"
ChildOrigin == "https://child.example"
EvilOrigin == "https://evil.example"
Origins == {HostOrigin, ChildOrigin, EvilOrigin}

\* url / targetOrigin configurations of the host, and the window they resolve in
RelativeUrl == "/child-messaging-example"
AbsoluteUrl == "https://child.example/app"
Urls == {RelativeUrl, AbsoluteUrl}

ChanA == "a"
ChanB == "b"
GeneratedChannel == "iframe-channel-k3x9q2a-0"
ChannelIds == {ChanA, ChanB, GeneratedChannel}

ReqIds == 1..MaxRequests
NoRequestId == 0
Actions == {"TOGGLE_THEME", "GET_DATA"}
Values == {"v1"}
ErrMsgs == {"boom", ""}
Heights == {DefaultHeight, 620}
HandlerIds == {"h1", "h2"}
Timeouts == {DefaultTimeoutMs}

\* enum MessageType
MT_RESIZE == "resize"
MT_DATA == "data"
MT_ACTION == "action"
MT_REQUEST == "request"
MT_RESPONSE == "response"

\* the earlier hooks of the repository that subscribe callbacks with onMessage
HookResize == "useIframeResize"
HookContentResize == "useIframeContentResize"
HookParent == "useIframeMessaging:parent"
HookChild == "useIframeMessaging:child"
VariantHooks == {HookResize, HookContentResize, HookParent, HookChild}
CallbackIds == {"cbA", "cbB"}

\* new URL(u, base).origin
UrlOrigin(u, base) ==
  CASE u = RelativeUrl -> base
    [] u = AbsoluteUrl -> ChildOrigin
    [] OTHER -> u

\* generateChannelId(): a fresh random token and timestamp
generateChannelId == GeneratedChannel

\* A payload is a JS value: a plain value, undefined, or the init object.
PlainPayload(v) == [init |-> FALSE, channelId |-> Undefined, v |-> v]
InitPayload(c) == [init |-> TRUE, channelId |-> c, v |-> Undefined]
NoPayload == PlainPayload(Undefined)

\* Who produced a message and from what: by is the sender ("host", "embed",
\* a handler id, "onAction", "nohandler" or "foreign"), kind and v the outcome
\* of the handler invocation a Response reports.  No handler reads it.
Prov(by, kind, v) == [by |-> by, kind |-> kind, v |-> v]
NoProv == Prov("foreign", "none", Undefined)

\* Fields a message may carry; absent fields are Undefined / NoRequestId.
\* hasRequestId is ('requestId' in message).
BlankMessage ==
  [type |-> Undefined, channelId |-> Undefined,
   hasRequestId |-> FALSE, requestId |-> NoRequestId,
   action |-> Undefined, success |-> FALSE,
   payload |-> NoPayload, error |-> Undefined,
   heightType |-> "undefined", height |-> 0,
   prov |-> NoProv]

\* createMessage(type, channelId, payload): the type and channelId are
\* written first and the spread of the payload fields comes last.
createMessage(type, channelId, fields) ==
  [f \in DOMAIN BlankMessage |->
     IF f \in DOMAIN fields THEN fields[f]
     ELSE IF f = "type" THEN type
     ELSE IF f = "channelId" THEN channelId
     ELSE BlankMessage[f]]

\* variant: the origin comparison is skipped
isValidMessageOrigin_AcceptsAny(eventOrigin, allowedOrigin, windowOrigin) == TRUE

\* variant: the allowed origin is compared as written, without resolving it
isValidMessageOrigin_NoResolve(eventOrigin, allowedOrigin, windowOrigin) ==
  IF allowedOrigin = Wildcard THEN TRUE
  ELSE eventOrigin = allowedOrigin

isValidMessageOrigin(eventOrigin, allowedOrigin, windowOrigin) ==
  IF allowedOrigin = Wildcard THEN TRUE
  ELSE eventOrigin = UrlOrigin(allowedOrigin, windowOrigin)

Falsy(x) == x \in {Undefined, "", Null}

\* ---------------------------------------------------------------- state
VARIABLES
  \* host hook (useIframeMessaging)
  hMounted,          \* the component using the hook is mounted
  hFrame,            \* iframeRef.current.contentWindow is available
  hUrl,              \* props.url
  hProvidedOrigin,   \* props.targetOrigin
  hProvidedChannelId, \* props.channelId in the last render
  hOnMessage,        \* identity of props.onMessage in the last render
  hChannelId,        \* useState(() => providedChannelId || generateChannelId())
  iframeHeight,
  lastResize,        \* height carried by the last Resize message the host acted on,
                     \* 0 where there was none
  hLoading,
  pendingRequests,   \* keys of pendingRequestsRef.current
  timers,            \* request ids whose setTimeout handle is armed
  requestCall,       \* per request id: instant of the sendRequest call and its timeoutMs
  future,            \* the promise returned by each sendRequest call
  settleCalls,       \* calls of resolve or reject made for each request so far
  loaded,            \* the frame's load event has fired
  initTimers,        \* armed 100 ms timers of handleIframeLoad
  now,               \* the clock
  \* transport
  toEmbed,           \* message events queued for the embed window
  toHost,            \* message events queued for the host window
  \* embed hook (useIframeContentMessaging)
  eMounted,
  eTargetOrigin,     \* options.targetOrigin
  eChannelId,        \* useState<string | null>(null)
  eBound,            \* channelId captured by the bound handleMessage closure
  actionHandlers,    \* actionHandlersRef.current
  registered,        \* per action name: the handler given to the latest registerActionHandler
                     \* call for it, Undefined if there was none or an unregister call followed
  onAction,          \* options.onAction
  eOnMessage,        \* options.onMessage
  tasks,             \* handler invocations whose await has not resumed
  scrollHeight,      \* contentRef.current.scrollHeight
  eLoading,          \* useState(initialLoading)
  deferred,          \* channel ids captured by scheduled setTimeout(notifyParentAboutHeight, 0)
  keptUnregister,    \* <<action, handler>>: unregister functions returned by
                     \* registerActionHandler that the caller still holds
  \* one instance of an earlier hook: useIframeResize, useIframeContentResize
  \* with onMessage, or the combined useIframeMessaging({ mode })
  rHook,             \* which hook the instance is
  rMounted,          \* its component is on the page
  rTarget,           \* props.url (useIframeResize), target / targetOrigin otherwise
  rChannelId,        \* props.channelId
  rHeight,           \* useState(defaultHeight)
  rLoading,          \* useState(true) / useState(initialLoading)
  messageCallbacks,  \* messageCallbacks.current
  broadcastChannel,  \* broadcastChannel.current: Null, "open" or "closed"
  \* observation of the last step
  last

hostVars ==
  <<hMounted, hFrame, hUrl, hProvidedOrigin, hProvidedChannelId, hOnMessage, hChannelId,
    iframeHeight, lastResize, hLoading, pendingRequests, timers, requestCall, future, settleCalls, loaded,
    initTimers>>
embedVars ==
  <<eMounted, eTargetOrigin, eChannelId, eBound, actionHandlers, registered, onAction,
    eOnMessage, tasks, scrollHeight, eLoading, deferred, keptUnregister>>
variantVars ==
  <<rHook, rMounted, rTarget, rChannelId, rHeight, rLoading, messageCallbacks,
    broadcastChannel>>
vars == <<hostVars, now, variantVars, toEmbed, toHost, embedVars, last>>

\* What the last step did: op and branch name the handler and the path taken
\* through it, settle = {<<requestId, "resolve"|"reject">>} the promise
\* callbacks called, forwarded = messages passed to the side's onMessage,
\* logged = console.error calls.
Observed(op, branch, settle, forwarded, logged) ==
  [op |-> op, branch |-> branch, settle |-> settle, forwarded |-> forwarded,
   logged |-> logged]
\* event.data === null
NullData == [BlankMessage EXCEPT !.type = Null]
IsNull(d) == d.type = Null
Quiet == Observed("none", "none", {}, <<>>, 0)

\* const targetOrigin = providedTargetOrigin || new URL(url, window.location.origin).origin
\* variant: without an override the host posts to any origin
hTargetOrigin_DefaultsToWildcard ==
  IF ~Falsy(hProvidedOrigin) THEN hProvidedOrigin ELSE Wildcard

hTargetOrigin ==
  IF ~Falsy(hProvidedOrigin) THEN hProvidedOrigin ELSE UrlOrigin(hUrl, HostOrigin)

\* origin of the document loaded in the frame
EmbedOrigin == UrlOrigin(hUrl, HostOrigin)

\* targetWindow.postMessage(message, targetOrigin): the event is queued for
\* the receiving document only if its origin is the target origin.  target
\* records the targetOrigin argument of the call; no handler reads it.
postMessage(queue, message, senderOrigin, targetOrigin, receiverOrigin) ==
  IF targetOrigin = Wildcard \/ targetOrigin = receiverOrigin
  THEN Append(queue, [origin |-> senderOrigin, data |-> message,
                      target |-> targetOrigin])
  ELSE queue

\* ------------------------------------------------------------- promises
\* value is what resolve() was given, error the message of what reject() was given
Unissued == [state |-> "unissued", value |-> NoPayload, error |-> Undefined]
Pending == [state |-> "pending", value |-> NoPayload, error |-> Undefined]
Resolved(v) == [state |-> "resolved", value |-> v, error |-> Undefined]
RejectedError(e) == [state |-> "rejected_error", value |-> NoPayload, error |-> e]
TimeoutMessage(ms) == "Request timed out after " \o ToString(ms) \o "ms"
RejectedTimeout(ms) ==
  [state |-> "rejected_timeout", value |-> NoPayload, error |-> TimeoutMessage(ms)]
\* resolve / reject of a promise act only on a pending promise
Settle(f, outcome) == IF f.state = "pending" THEN outcome ELSE f

\* ------------------------------------------------------------ host hook

\* sendMessage(type, payload) of the host
HostSendMessage(type, fields) ==
  IF ~hFrame THEN toEmbed
  ELSE postMessage(toEmbed, createMessage(type, hChannelId, fields),
                   HostOrigin, hTargetOrigin, EmbedOrigin)

HostSendData(v) ==
  /\ hMounted
  /\ Len(toEmbed) < MaxQueue
  /\ toEmbed' = HostSendMessage(MT_DATA, [payload |-> PlainPayload(v), prov |-> Prov("host", "none", Undefined)])
  /\ last' = Quiet
  /\ UNCHANGED <<hostVars, now, variantVars, toHost, embedVars>>

HostSendAction(a, v) ==
  /\ hMounted
  /\ Len(toEmbed) < MaxQueue
  /\ toEmbed' = HostSendMessage(MT_ACTION,
                   [action |-> a, payload |-> PlainPayload(v), prov |-> Prov("host", "none", Undefined)])
  /\ last' = Quiet
  /\ UNCHANGED <<hostVars, now, variantVars, toHost, embedVars>>

\* sendRequest(action, payload, timeoutMs): the executor of the returned promise
HostSendRequest(a, v, timeoutMs) ==
  /\ hMounted
  /\ Len(toEmbed) < MaxQueue
  /\ now + timeoutMs <= MaxClock
  /\ \E requestId \in ReqIds :
       /\ future[requestId].state = "unissued"
       /\ \A r \in ReqIds : r < requestId => future[r].state # "unissued"
       /\ future' = [future EXCEPT ![requestId] = Pending]
       /\ timers' = timers \cup {requestId}
       /\ requestCall' = [requestCall EXCEPT ![requestId] =
                             [at |-> now, timeoutMs |-> timeoutMs]]
       /\ pendingRequests' = pendingRequests \cup {requestId}
       /\ toEmbed' = HostSendMessage(MT_REQUEST,
            [hasRequestId |-> TRUE, requestId |-> requestId, action |-> a,
             payload |-> PlainPayload(v), prov |-> Prov("host", "none", Undefined)])
  /\ last' = Quiet
  /\ UNCHANGED <<hMounted, hFrame, hUrl, hProvidedOrigin, hProvidedChannelId, hOnMessage, hChannelId,
                 iframeHeight, lastResize, hLoading, settleCalls, loaded, initTimers, now, variantVars, toHost,
                 embedVars>>

\* setTimeout(cb, timeoutMs) runs cb no earlier than timeoutMs after the call
Deadline(requestId) == requestCall[requestId].at + requestCall[requestId].timeoutMs

\* pendingRequestsRef.current.get(requestId) found an entry
\* variant: the lookup in the pending map is not consulted
HasPending_Always(requestId) == TRUE

HasPending(requestId) == requestId \in pendingRequests

\* the promise callbacks of request requestId: resolve(...) or reject(...)
CallSettle(requestId, outcome) ==
  /\ future' = [future EXCEPT ![requestId] = Settle(@, outcome)]
  /\ settleCalls' = [settleCalls EXCEPT ![requestId] = @ + 1]

\* the setTimeout callback armed by sendRequest
TimeoutFires(requestId) ==
  /\ requestId \in timers
  /\ now >= Deadline(requestId)
  /\ timers' = timers \ {requestId}
  /\ IF HasPending(requestId)
     THEN /\ pendingRequests' = pendingRequests \ {requestId}
          /\ CallSettle(requestId, RejectedTimeout(requestCall[requestId].timeoutMs))
          /\ last' = Observed("timeout", "reject", {<<requestId, "reject">>}, <<>>, 0)
     ELSE /\ UNCHANGED <<pendingRequests, future, settleCalls>>
          /\ last' = Observed("timeout", "none", {}, <<>>, 0)
  /\ UNCHANGED <<hMounted, hFrame, hUrl, hProvidedOrigin, hProvidedChannelId, hOnMessage, hChannelId,
                 iframeHeight, lastResize, hLoading, requestCall, loaded, initTimers, now, variantVars, toEmbed,
                 toHost, embedVars>>

\* variant: the height is stored but the loading flag is left as it is
handleIframeResize_KeepsLoading(height) ==
  /\ iframeHeight' = height
  /\ UNCHANGED hLoading
  /\ lastResize' = height

\* variant: the held height only grows
handleIframeResize_NeverShrinks(height) ==
  /\ iframeHeight' = IF height > iframeHeight THEN height ELSE iframeHeight
  /\ hLoading' = FALSE
  /\ lastResize' = height

\* variant: the height of the message is added to the held height
handleIframeResize_Accumulates(height) ==
  /\ iframeHeight' = iframeHeight + height
  /\ hLoading' = FALSE
  /\ lastResize' = height

\* handleIframeResize(height): setIframeHeight(height); setLoading(false)
handleIframeResize(height) ==
  /\ iframeHeight' = height
  /\ hLoading' = FALSE
  /\ lastResize' = height

\* message.channelId !== channelId is false
\* variant: the channel filter lets every channel id through
HostChannelMatches_AcceptsAny(message) == TRUE

HostChannelMatches(message) == message.channelId = hChannelId

\* case MessageType.RESPONSE with a pending entry: clearTimeout, delete, settle
\* variant: the outcome follows the presence of an error text instead of the
\* success flag
HostOnResponse_ByErrorPresence(message) ==
  /\ timers' = timers \ {message.requestId}
  /\ pendingRequests' = pendingRequests \ {message.requestId}
  /\ IF Falsy(message.error)
     THEN /\ CallSettle(message.requestId, Resolved(message.payload))
          /\ last' = Observed("hostMessage", "response",
                        {<<message.requestId, "resolve">>}, <<>>, 0)
     ELSE /\ CallSettle(message.requestId, RejectedError(message.error))
          /\ last' = Observed("hostMessage", "response",
                        {<<message.requestId, "reject">>}, <<>>, 0)

\* variant: the Response is matched by channel alone: it settles the oldest
\* pending request, whatever requestId it carries
HostOnResponse_OldestPending(message) ==
  LET oldest == CHOOSE r \in pendingRequests : \A q \in pendingRequests : r <= q IN
  /\ timers' = timers \ {oldest}
  /\ pendingRequests' = pendingRequests \ {oldest}
  /\ IF message.success
     THEN /\ CallSettle(oldest, Resolved(message.payload))
          /\ last' = Observed("hostMessage", "response", {<<oldest, "resolve">>}, <<>>, 0)
     ELSE /\ CallSettle(oldest,
                 RejectedError(IF Falsy(message.error) THEN "Unknown error"
                               ELSE message.error))
          /\ last' = Observed("hostMessage", "response", {<<oldest, "reject">>}, <<>>, 0)

\* variant: the Response settles the future but neither clears the timer nor
\* deletes the pending entry
HostOnResponse_KeepsEntry(message) ==
  /\ timers' = timers
  /\ pendingRequests' = pendingRequests
  /\ IF message.success
     THEN /\ CallSettle(message.requestId, Resolved(message.payload))
          /\ last' = Observed("hostMessage", "response",
                        {<<message.requestId, "resolve">>}, <<>>, 0)
     ELSE /\ CallSettle(message.requestId,
                 RejectedError(IF Falsy(message.error) THEN "Unknown error"
                               ELSE message.error))
          /\ last' = Observed("hostMessage", "response",
                        {<<message.requestId, "reject">>}, <<>>, 0)

HostOnResponse(message) ==
  /\ timers' = timers \ {message.requestId}
  /\ pendingRequests' = pendingRequests \ {message.requestId}
  /\ IF message.success
     THEN /\ CallSettle(message.requestId, Resolved(message.payload))
          /\ last' = Observed("hostMessage", "response",
                        {<<message.requestId, "resolve">>}, <<>>, 0)
     ELSE /\ CallSettle(message.requestId,
                 RejectedError(IF Falsy(message.error) THEN "Unknown error"
                               ELSE message.error))
          /\ last' = Observed("hostMessage", "response",
                        {<<message.requestId, "reject">>}, <<>>, 0)

\* default case: if (onMessage) onMessage(message)
\* variant: the callback is given the payload instead of the message
ForwardToOnMessage_PayloadOnly(callback, message) ==
  IF callback # Undefined
  THEN <<[message EXCEPT !.type = Undefined, !.channelId = Undefined]>>
  ELSE <<>>

ForwardToOnMessage(callback, message) ==
  IF callback # Undefined THEN <<message>> ELSE <<>>

\* typeof message.height === 'number'
\* variant: the height is used without the typeof test
HeightIsNumber_Unchecked(message) == TRUE

HeightIsNumber(message) == message.heightType = "number"

\* the body of handleMessage of the host for one message event
HostOnMessage(ev) ==
  LET message == ev.data
      Took(branch) == Observed("hostMessage", branch, {}, <<>>, 0)
  IN
  IF ~hMounted
  THEN \* no listener is registered
       /\ last' = Took("noListener")
       /\ UNCHANGED hostVars
  ELSE IF ~isValidMessageOrigin(ev.origin, hTargetOrigin, HostOrigin)
  THEN /\ last' = Took("origin")
       /\ UNCHANGED hostVars
  ELSE IF IsNull(message)
  THEN \* message.channelId throws a TypeError, caught and logged
       /\ last' = Observed("hostMessage", "threw", {}, <<>>, 1)
       /\ UNCHANGED hostVars
  ELSE IF ~HostChannelMatches(message)
  THEN /\ last' = Took("channel")
       /\ UNCHANGED hostVars
  ELSE IF message.type = MT_RESIZE
  THEN /\ IF HeightIsNumber(message)
          THEN /\ handleIframeResize(message.height)
               /\ last' = Took("resize")
          ELSE /\ UNCHANGED <<iframeHeight, lastResize, hLoading>>
               /\ last' = Took("resizeIgnored")
       /\ UNCHANGED <<hMounted, hFrame, hUrl, hProvidedOrigin, hProvidedChannelId, hOnMessage, hChannelId,
                      pendingRequests, timers, requestCall, future, settleCalls, loaded,
                      initTimers>>
  ELSE IF message.type = MT_RESPONSE
  THEN /\ IF HasPending(message.requestId)
          THEN HostOnResponse(message)
          ELSE /\ last' = Took("responseIgnored")
               /\ UNCHANGED <<timers, pendingRequests, future, settleCalls>>
       /\ UNCHANGED <<hMounted, hFrame, hUrl, hProvidedOrigin, hProvidedChannelId, hOnMessage, hChannelId,
                      iframeHeight, lastResize, hLoading, requestCall, loaded, initTimers>>
  ELSE \* default: forward to the onMessage callback if provided
       /\ last' = Observed("hostMessage", "default", {},
                           ForwardToOnMessage(hOnMessage, message), 0)
       /\ UNCHANGED hostVars

\* the browser dispatches the next queued message event on the host window
HostDeliver ==
  /\ toHost # <<>>
  /\ HostOnMessage(Head(toHost))
  /\ toHost' = Tail(toHost)
  /\ UNCHANGED <<now, variantVars, toEmbed, embedVars>>

\* cleanup of the listener effect: removeEventListener, clearTimeout of every
\* pending request, pendingRequestsRef.current.clear()
\* variant: the cleanup empties the pending map but leaves the timers armed
HostListenerCleanup_KeepsTimers ==
  /\ timers' = timers
  /\ pendingRequests' = {}

HostListenerCleanup ==
  /\ timers' = timers \ pendingRequests
  /\ pendingRequests' = {}

\* a render of the owning component passing onMessage = cb; the listener effect
\* depends on handleMessage, whose identity follows onMessage
HostRender(cb) ==
  /\ hMounted
  /\ cb # hOnMessage
  /\ hOnMessage' = cb
  /\ HostListenerCleanup
  /\ last' = Quiet
  /\ UNCHANGED <<hMounted, hFrame, hUrl, hProvidedOrigin, hProvidedChannelId, hChannelId, iframeHeight, lastResize,
                 hLoading, requestCall, future, settleCalls, loaded, initTimers, now, variantVars,
                 toEmbed, toHost, embedVars>>

\* variant: the channel id follows the prop of the current render
HostRenderChannel_AdoptsProp(c) ==
  /\ hMounted
  /\ c # hProvidedChannelId
  /\ hProvidedChannelId' = c
  /\ hChannelId' = IF ~Falsy(c) THEN c ELSE hChannelId
  /\ last' = Quiet
  /\ UNCHANGED <<hMounted, hFrame, hUrl, hProvidedOrigin, hOnMessage, iframeHeight,
                 lastResize, hLoading, pendingRequests, timers, requestCall, future,
                 settleCalls, loaded, initTimers, now, variantVars, toEmbed, toHost, embedVars>>

\* a render of the owning component passing channelId = c: useState keeps
\* the value of the first render, so no callback or effect changes
HostRenderChannel(c) ==
  /\ hMounted
  /\ c # hProvidedChannelId
  /\ hProvidedChannelId' = c
  /\ last' = Quiet
  /\ UNCHANGED <<hMounted, hFrame, hUrl, hProvidedOrigin, hOnMessage, hChannelId,
                 iframeHeight, lastResize, hLoading, pendingRequests, timers, requestCall,
                 future, settleCalls, loaded, initTimers, now, variantVars, toEmbed, toHost, embedVars>>

HostUnmount ==
  /\ hMounted
  /\ hMounted' = FALSE
  /\ hFrame' = FALSE
  /\ HostListenerCleanup
  /\ last' = Quiet
  /\ UNCHANGED <<hUrl, hProvidedOrigin, hProvidedChannelId, hOnMessage, hChannelId, iframeHeight, lastResize,
                 hLoading, requestCall, future, settleCalls, loaded, initTimers, now, variantVars,
                 toEmbed, toHost, embedVars>>

Tick ==
  /\ now + TickMs <= MaxClock
  /\ now' = now + TickMs
  /\ last' = Quiet
  /\ UNCHANGED <<hostVars, variantVars, toEmbed, toHost, embedVars>>

\* ----------------------------------------------------------- embed hook

\* sendMessage(type, payload) of the embed, as captured with channelId
\* variant: the message is posted whether or not a channel id is held
EmbedSendMessage_NoGuard(queue, channelId, type, fields) ==
  postMessage(queue, createMessage(type, channelId, fields),
              EmbedOrigin, eTargetOrigin, HostOrigin)

EmbedSendMessage(queue, channelId, type, fields) ==
  IF channelId = Null THEN queue
  ELSE postMessage(queue, createMessage(type, channelId, fields),
                   EmbedOrigin, eTargetOrigin, HostOrigin)

\* sendResponse(requestId, payload, error)
\* variant: a failure is not reported back, only successes are answered
sendResponse_OnlySuccess(queue, channelId, requestId, payload, error, prov) ==
  IF Falsy(error)
  THEN EmbedSendMessage(queue, channelId, MT_RESPONSE,
         [hasRequestId |-> TRUE, requestId |-> requestId, success |-> TRUE,
          payload |-> payload, error |-> error, prov |-> prov])
  ELSE queue

sendResponse(queue, channelId, requestId, payload, error, prov) ==
  EmbedSendMessage(queue, channelId, MT_RESPONSE,
    [hasRequestId |-> TRUE, requestId |-> requestId, success |-> Falsy(error),
     payload |-> payload, error |-> error, prov |-> prov])

\* notifyParentAboutHeight(), as captured with channelId
\* variant: the height sent is the initial one, not the one read on sending
notifyParentAboutHeight_StaleHeight(queue, channelId) ==
  IF ~eMounted \/ channelId = Null THEN queue
  ELSE EmbedSendMessage(queue, channelId, MT_RESIZE,
         [heightType |-> "number", height |-> DefaultHeight,
          prov |-> Prov("embed", "none", Undefined)])

notifyParentAboutHeight(queue, channelId) ==
  IF ~eMounted \/ channelId = Null THEN queue
  ELSE EmbedSendMessage(queue, channelId, MT_RESIZE,
         [heightType |-> "number", height |-> scrollHeight, prov |-> Prov("embed", "none", Undefined)])

\* sendData(data) of the embed, as returned by the last committed render
EmbedSendData(v) ==
  /\ eMounted
  /\ Len(toHost) < MaxQueue
  /\ toHost' = EmbedSendMessage(toHost, eBound, MT_DATA,
                  [payload |-> PlainPayload(v), prov |-> Prov("embed", "none", Undefined)])
  /\ last' = Observed("embedSendData", "none", {}, <<>>, 0)
  /\ UNCHANGED <<hostVars, now, variantVars, toEmbed, embedVars>>

\* A handler invocation suspended at its await: by is the handler id or
\* "onAction", respond says whether a Response follows, logs whether the
\* catch block calls console.error.
Task(by, respond, requestId, channelId, logs) ==
  [by |-> by, respond |-> respond, requestId |-> requestId,
   channelId |-> channelId, logs |-> logs]

\* !channelId || message.channelId !== channelId is false
\* variant: without a channel id every message passes the channel filter
EmbedChannelMatches_OpenBeforeInit(channelId, message) ==
  channelId = Null \/ message.channelId = channelId

EmbedChannelMatches(channelId, message) ==
  channelId # Null /\ message.channelId = channelId

\* a Response follows the handling of the message: case REQUEST, or case
\* ACTION with ('requestId' in message)
\* variant: every Action and Request is answered
ExpectsResponse_Always(message) == TRUE

ExpectsResponse(message) == message.type = MT_REQUEST \/ message.hasRequestId

\* variant: the fallback callback is consulted before the handler registry
EmbedOnMessage_FallbackFirst(ev) ==
  LET message == ev.data
      channelId == eBound
      Took(branch) == Observed("embedMessage", branch, {}, <<>>, 0)
      handler == actionHandlers[message.action]
  IN
  IF ~eMounted
  THEN /\ last' = Took("noListener")
       /\ UNCHANGED <<eChannelId, tasks, toHost>>
  ELSE IF ~isValidMessageOrigin(ev.origin, eTargetOrigin, EmbedOrigin)
  THEN /\ last' = Took("origin")
       /\ UNCHANGED <<eChannelId, tasks, toHost>>
  ELSE IF IsNull(message)
  THEN \* message.type / message.channelId throws a TypeError, caught and logged
       /\ last' = Observed("embedMessage", "threw", {}, <<>>, 1)
       /\ UNCHANGED <<eChannelId, tasks, toHost>>
  ELSE IF /\ channelId = Null
          /\ message.type = MT_DATA
          /\ message.payload.init
          /\ ~Falsy(message.payload.channelId)
  THEN /\ eChannelId' = message.payload.channelId
       /\ last' = Took("init")
       /\ UNCHANGED <<tasks, toHost>>
  ELSE IF ~EmbedChannelMatches(channelId, message)
  THEN /\ last' = Took("channel")
       /\ UNCHANGED <<eChannelId, tasks, toHost>>
  ELSE IF message.type \in {MT_ACTION, MT_REQUEST}
  THEN LET respond == ExpectsResponse(message)
       IN
       /\ IF onAction # Undefined
          THEN /\ tasks' = Append(tasks, Task("onAction", respond, message.requestId,
                                               channelId, FALSE))
               /\ last' = Took("onAction")
               /\ UNCHANGED toHost
          ELSE IF handler # Undefined
          THEN /\ tasks' = Append(tasks, Task(handler, respond, message.requestId,
                                               channelId, message.type = MT_ACTION))
               /\ last' = Took("handler")
               /\ UNCHANGED toHost
          ELSE /\ toHost' =
                    IF respond
                    THEN sendResponse(toHost, channelId, message.requestId, NoPayload,
                                      "No handler registered for action",
                                      Prov("nohandler", "none", Undefined))
                    ELSE toHost
               /\ last' = Took("noHandler")
               /\ UNCHANGED tasks
       /\ UNCHANGED eChannelId
  ELSE \* default: forward to the onMessage callback if provided
       /\ last' = Observed("embedMessage", "default", {},
                           ForwardToOnMessage(eOnMessage, message), 0)
       /\ UNCHANGED <<eChannelId, tasks, toHost>>

\* the body of handleMessage of the embed for one message event, up to the
\* first await
EmbedOnMessage(ev) ==
  LET message == ev.data
      channelId == eBound
      Took(branch) == Observed("embedMessage", branch, {}, <<>>, 0)
      handler == actionHandlers[message.action]
  IN
  IF ~eMounted
  THEN /\ last' = Took("noListener")
       /\ UNCHANGED <<eChannelId, tasks, toHost>>
  ELSE IF ~isValidMessageOrigin(ev.origin, eTargetOrigin, EmbedOrigin)
  THEN /\ last' = Took("origin")
       /\ UNCHANGED <<eChannelId, tasks, toHost>>
  ELSE IF IsNull(message)
  THEN \* message.type / message.channelId throws a TypeError, caught and logged
       /\ last' = Observed("embedMessage", "threw", {}, <<>>, 1)
       /\ UNCHANGED <<eChannelId, tasks, toHost>>
  ELSE IF /\ channelId = Null
          /\ message.type = MT_DATA
          /\ message.payload.init
          /\ ~Falsy(message.payload.channelId)
  THEN /\ eChannelId' = message.payload.channelId
       /\ last' = Took("init")
       /\ UNCHANGED <<tasks, toHost>>
  ELSE IF ~EmbedChannelMatches(channelId, message)
  THEN /\ last' = Took("channel")
       /\ UNCHANGED <<eChannelId, tasks, toHost>>
  ELSE IF message.type \in {MT_ACTION, MT_REQUEST}
  THEN LET respond == ExpectsResponse(message)
       IN
       /\ IF handler # Undefined
          THEN /\ tasks' = Append(tasks, Task(handler, respond, message.requestId,
                                               channelId, message.type = MT_ACTION))
               /\ last' = Took("handler")
               /\ UNCHANGED toHost
          ELSE IF onAction # Undefined
          THEN /\ tasks' = Append(tasks, Task("onAction", respond, message.requestId,
                                               channelId, FALSE))
               /\ last' = Took("onAction")
               /\ UNCHANGED toHost
          ELSE /\ toHost' =
                    IF respond
                    THEN sendResponse(toHost, channelId, message.requestId, NoPayload,
                                      "No handler registered for action",
                                      Prov("nohandler", "none", Undefined))
                    ELSE toHost
               /\ last' = Took("noHandler")
               /\ UNCHANGED tasks
       /\ UNCHANGED eChannelId
  ELSE \* default: forward to the onMessage callback if provided
       /\ last' = Observed("embedMessage", "default", {},
                           ForwardToOnMessage(eOnMessage, message), 0)
       /\ UNCHANGED <<eChannelId, tasks, toHost>>

\* the browser dispatches the next queued message event on the embed window
EmbedDeliver ==
  /\ toEmbed # <<>>
  /\ Len(toHost) < MaxQueue
  /\ Len(tasks) < MaxTasks
  /\ EmbedOnMessage(Head(toEmbed))
  /\ toEmbed' = Tail(toEmbed)
  /\ UNCHANGED <<hostVars, now, variantVars, eMounted, eTargetOrigin, eBound, actionHandlers, registered, keptUnregister,
                 onAction, eOnMessage, scrollHeight, eLoading, deferred>>

RemoveAt(seq, i) == SubSeq(seq, 1, i - 1) \o SubSeq(seq, i + 1, Len(seq))

\* outcomes of awaiting a handler: it returned v, or threw an Error with message e
Outcomes ==
  [kind : {"return"}, v : Values, e : {Undefined}]
    \cup [kind : {"throw"}, v : {Undefined}, e : ErrMsgs]

\* handleMessage of the embed resumes after `await handler(payload)`
EmbedHandlerSettles(i, outcome) ==
  LET task == tasks[i] IN
  /\ i \in 1..Len(tasks)
  /\ Len(toHost) < MaxQueue
  /\ tasks' = RemoveAt(tasks, i)
  /\ toHost' =
       IF ~task.respond THEN toHost
       ELSE IF outcome.kind = "return"
       THEN sendResponse(toHost, task.channelId, task.requestId,
                         PlainPayload(outcome.v), Undefined,
                         Prov(task.by, outcome.kind, outcome.v))
       ELSE sendResponse(toHost, task.channelId, task.requestId,
                         NoPayload, outcome.e,
                         Prov(task.by, outcome.kind, outcome.e))
  /\ last' = Observed("handlerSettles", outcome.kind, {}, <<>>,
                      IF outcome.kind = "throw" /\ task.logs THEN 1 ELSE 0)
  /\ UNCHANGED <<hostVars, now, variantVars, toEmbed, eMounted, eTargetOrigin, eChannelId, eBound,
                 actionHandlers, registered, keptUnregister, onAction, eOnMessage, scrollHeight, eLoading, deferred>>

\* registerActionHandler(action, handler)
\* variant: a name that already has a handler keeps it (first registration wins)
RegisterActionHandler_KeepsFirst(a, h) ==
  /\ eMounted
  /\ actionHandlers[a] # h
  /\ actionHandlers' = IF actionHandlers[a] = Undefined
                       THEN [actionHandlers EXCEPT ![a] = h]
                       ELSE actionHandlers
  /\ registered' = [registered EXCEPT ![a] = h]
  /\ last' = Quiet
  /\ UNCHANGED <<hostVars, now, variantVars, toEmbed, toHost, eMounted, eTargetOrigin, eChannelId,
                 eBound, onAction, eOnMessage, tasks, scrollHeight, eLoading, deferred,
                 keptUnregister>>

RegisterActionHandler(a, h) ==
  /\ eMounted
  /\ actionHandlers[a] # h
  /\ actionHandlers' = [actionHandlers EXCEPT ![a] = h]
  /\ registered' = [registered EXCEPT ![a] = h]
  /\ last' = Quiet
  /\ UNCHANGED <<hostVars, now, variantVars, toEmbed, toHost, eMounted, eTargetOrigin, eChannelId,
                 eBound, onAction, eOnMessage, tasks, scrollHeight, eLoading, deferred,
                 keptUnregister>>

\* the function returned by registerActionHandler(a, ...)
UnregisterActionHandler(a) ==
  /\ actionHandlers[a] # Undefined
  /\ actionHandlers' = [actionHandlers EXCEPT ![a] = Undefined]
  /\ registered' = [registered EXCEPT ![a] = Undefined]
  /\ last' = Quiet
  /\ UNCHANGED <<hostVars, now, variantVars, toEmbed, toHost, eMounted, eTargetOrigin, eChannelId,
                 eBound, onAction, eOnMessage, tasks, scrollHeight, eLoading, deferred,
                 keptUnregister>>

\* variant: the loading effect measures and notifies at once instead of
\* scheduling a zero-delay task
EmbedRender_MeasuresAtFlip(loading) ==
  LET channelChanged == eBound # eChannelId
      schedules == ~loading /\ eChannelId # Null
      attached == IF channelChanged THEN notifyParentAboutHeight(toHost, eChannelId)
                  ELSE toHost
  IN
  /\ eMounted
  /\ channelChanged \/ loading # eLoading
  /\ Len(toHost) < MaxQueue
  /\ eLoading' = loading
  /\ eBound' = eChannelId
  /\ toHost' = IF schedules THEN notifyParentAboutHeight(attached, eChannelId)
               ELSE attached
  /\ last' = Quiet
  /\ UNCHANGED <<hostVars, now, variantVars, toEmbed, eMounted, eTargetOrigin, eChannelId,
                 actionHandlers, registered, keptUnregister, onAction, eOnMessage, tasks, scrollHeight,
                 deferred>>

\* A render of the embed component commits: loading == the loading state of
\* this render (setLoading), channelId state as set by setChannelId.  The
\* listener effect re-binds handleMessage; the observer effect re-runs when
\* channelId changed and notifies once; the loading effect re-runs when
\* loading or channelId changed and schedules a zero-delay notification.
EmbedRender(loading) ==
  LET channelChanged == eBound # eChannelId
      schedules == ~loading /\ eChannelId # Null
  IN
  /\ eMounted
  /\ channelChanged \/ loading # eLoading
  /\ Len(toHost) < MaxQueue
  /\ schedules => Len(deferred) < MaxDeferred
  /\ eLoading' = loading
  /\ eBound' = eChannelId
  /\ toHost' = IF channelChanged THEN notifyParentAboutHeight(toHost, eChannelId)
               ELSE toHost
  /\ deferred' = IF schedules THEN Append(deferred, eChannelId) ELSE deferred
  /\ last' = Quiet
  /\ UNCHANGED <<hostVars, now, variantVars, toEmbed, eMounted, eTargetOrigin, eChannelId,
                 actionHandlers, registered, keptUnregister, onAction, eOnMessage, tasks, scrollHeight>>

\* a scheduled setTimeout(notifyParentAboutHeight, 0) runs
DeferredNotify ==
  /\ deferred # <<>>
  /\ Len(toHost) < MaxQueue
  /\ toHost' = notifyParentAboutHeight(toHost, Head(deferred))
  /\ deferred' = Tail(deferred)
  /\ last' = Observed("deferredNotify", "none", {}, <<>>, 0)
  /\ UNCHANGED <<hostVars, now, variantVars, toEmbed, eMounted, eTargetOrigin, eChannelId, eBound,
                 actionHandlers, registered, keptUnregister, onAction, eOnMessage, tasks, scrollHeight, eLoading>>

\* variant: the size change is observed but no notification is sent
ContentResize_Silent(h) ==
  /\ eMounted
  /\ h # scrollHeight
  /\ scrollHeight' = h
  /\ last' = Quiet
  /\ UNCHANGED <<hostVars, now, variantVars, toEmbed, toHost, eMounted, eTargetOrigin, eChannelId,
                 eBound, actionHandlers, registered, keptUnregister, onAction, eOnMessage, tasks,
                 eLoading, deferred>>

\* the content root changes size; the ResizeObserver callback of the last
\* observer effect (attached only once a channel id is bound) notifies
ContentResize(h) ==
  /\ eMounted
  /\ h # scrollHeight
  /\ Len(toHost) < MaxQueue
  /\ scrollHeight' = h
  /\ toHost' =
       IF eBound = Null THEN toHost
       ELSE EmbedSendMessage(toHost, eBound, MT_RESIZE,
              [heightType |-> "number", height |-> h, prov |-> Prov("embed", "none", Undefined)])
  /\ last' = Quiet
  /\ UNCHANGED <<hostVars, now, variantVars, toEmbed, eMounted, eTargetOrigin, eChannelId, eBound,
                 actionHandlers, registered, keptUnregister, onAction, eOnMessage, tasks, eLoading, deferred>>

EmbedUnmount ==
  /\ eMounted
  /\ eMounted' = FALSE
  /\ last' = Quiet
  /\ UNCHANGED <<hostVars, now, variantVars, toEmbed, toHost, eTargetOrigin, eChannelId, eBound,
                 actionHandlers, registered, keptUnregister, onAction, eOnMessage, tasks, scrollHeight, eLoading,
                 deferred>>

\* ------------------------------------------------- init message of the host

\* the frame element's load event: handleIframeLoad arms a 100 ms timer
FrameLoad ==
  /\ hMounted
  /\ hFrame
  /\ ~loaded
  /\ loaded' = TRUE
  /\ initTimers' = initTimers + 1
  /\ last' = Quiet
  /\ UNCHANGED <<hMounted, hFrame, hUrl, hProvidedOrigin, hProvidedChannelId, hOnMessage, hChannelId,
                 iframeHeight, lastResize, hLoading, pendingRequests, timers, requestCall, future,
                 settleCalls, now, variantVars, toEmbed, toHost, embedVars>>

\* the frame loads a document again (reload or navigation): another load
\* event on the frame element, and the embed hook of the document that was
\* there is gone with what was queued for it
FrameReload ==
  /\ hMounted
  /\ hFrame
  /\ loaded
  /\ initTimers < MaxInitTimers
  /\ initTimers' = initTimers + 1
  /\ toEmbed' = <<>>
  /\ eChannelId' = Null
  /\ eBound' = Null
  /\ actionHandlers' = [a \in Actions |-> Undefined]
  /\ registered' = [a \in Actions |-> Undefined]
  /\ keptUnregister' = {}
  /\ tasks' = <<>>
  /\ scrollHeight' = DefaultHeight
  /\ eLoading' = FALSE
  /\ deferred' = <<>>
  /\ last' = Observed("frameLoad", "reload", {}, <<>>, 0)
  /\ UNCHANGED <<hMounted, hFrame, hUrl, hProvidedOrigin, hProvidedChannelId, hOnMessage,
                 hChannelId, iframeHeight, lastResize, hLoading, pendingRequests, timers,
                 requestCall, future, settleCalls, loaded, now, variantVars, toHost, eMounted,
                 eTargetOrigin, onAction, eOnMessage>>

\* the 100 ms timer: sendData({ init: true, channelId }) if the frame is still there
\* variant: the callback is armed with setInterval and stays armed
InitTimerFires_Repeats ==
  /\ initTimers > 0
  /\ Len(toEmbed) < MaxQueue
  /\ initTimers' = initTimers
  /\ toEmbed' = HostSendMessage(MT_DATA,
                   [payload |-> InitPayload(hChannelId), prov |-> Prov("host", "none", Undefined)])
  /\ last' = Observed("initTimer", IF hFrame THEN "sent" ELSE "noFrame", {}, <<>>, 0)
  /\ UNCHANGED <<hMounted, hFrame, hUrl, hProvidedOrigin, hProvidedChannelId, hOnMessage,
                 hChannelId, iframeHeight, lastResize, hLoading, pendingRequests, timers,
                 requestCall, future, settleCalls, loaded, now, variantVars, toHost, embedVars>>

InitTimerFires ==
  /\ initTimers > 0
  /\ Len(toEmbed) < MaxQueue
  /\ initTimers' = initTimers - 1
  /\ toEmbed' = HostSendMessage(MT_DATA,
                   [payload |-> InitPayload(hChannelId), prov |-> Prov("host", "none", Undefined)])
  /\ last' = Observed("initTimer", IF hFrame THEN "sent" ELSE "noFrame", {}, <<>>, 0)
  /\ UNCHANGED <<hMounted, hFrame, hUrl, hProvidedOrigin, hProvidedChannelId, hOnMessage, hChannelId,
                 iframeHeight, lastResize, hLoading, pendingRequests, timers, requestCall, future,
                 settleCalls, loaded, now, variantVars, toHost, embedVars>>

\* ------------------------------------------- events from other windows

\* Message events posted to the host window by other frames of the page:
\* from the framed document's origin or another one, on the channel the host
\* is configured with (ChanA) or another one.
ForeignToHost ==
  LET Ev(o, m) == [origin |-> o, data |-> m]
      M(type, c, fields) == createMessage(type, c, fields)
      Response(c, r, ok) ==
        M(MT_RESPONSE, c,
          [hasRequestId |-> TRUE, requestId |-> r, success |-> ok,
           payload |-> IF ok THEN PlainPayload("v1") ELSE NoPayload,
           error |-> IF ok THEN Undefined ELSE "boom"])
      Resize(c, t) == M(MT_RESIZE, c, [heightType |-> t,
                                       height |-> IF t = "number" THEN 620 ELSE 0])
      Data(c) == M(MT_DATA, c, [payload |-> PlainPayload("v1")])
  IN
  { Ev(ChildOrigin, NullData), Ev(EvilOrigin, NullData),
    Ev(ChildOrigin, Resize(ChanA, "number")),
    Ev(ChildOrigin, Resize(ChanA, "string")),
    Ev(ChildOrigin, Resize(ChanB, "number")),
    Ev(EvilOrigin, Resize(ChanA, "number")),
    Ev(ChildOrigin, Data(ChanA)),
    Ev(ChildOrigin, Data(ChanB)),
    Ev(EvilOrigin, Data(ChanA)) }
  \cup { Ev(ChildOrigin, Response(ChanA, r, ok)) : r \in ReqIds, ok \in BOOLEAN }
  \cup { Ev(ChildOrigin, Response(ChanB, r, TRUE)) : r \in ReqIds }
  \cup { Ev(EvilOrigin, Response(ChanA, r, TRUE)) : r \in ReqIds }

\* Responses on the host's channel from the framed document's origin whose
\* success flag disagrees with the fields present: success with an error text
\* and no payload, failure with a payload and no error text or an empty one.
OddResponsesToHost ==
  LET Response(r, ok, p, e) ==
        [origin |-> ChildOrigin,
         data |-> createMessage(MT_RESPONSE, ChanA,
                    [hasRequestId |-> TRUE, requestId |-> r, success |-> ok,
                     payload |-> p, error |-> e])]
  IN
  { Response(r, TRUE, NoPayload, "boom") : r \in ReqIds }
  \cup { Response(r, FALSE, PlainPayload("v1"), e) : r \in ReqIds, e \in {Undefined, ""} }

HostForeign(ev) ==
  /\ HostOnMessage(ev)
  /\ UNCHANGED <<now, variantVars, toEmbed, toHost, embedVars>>

\* Message events posted to the embed window by other windows: from the host
\* page's origin or another one, on channel ChanA or ChanB.
ForeignToEmbed ==
  LET Ev(o, m) == [origin |-> o, data |-> m]
      M(type, c, fields) == createMessage(type, c, fields)
      InitData(c) == M(MT_DATA, c, [payload |-> InitPayload(c)])
      Data(c) == M(MT_DATA, c, [payload |-> PlainPayload("v1")])
      Resize(c) == M(MT_RESIZE, c, [heightType |-> "number", height |-> 620])
      Action(c) == M(MT_ACTION, c, [action |-> "TOGGLE_THEME"])
      Request(c) == M(MT_REQUEST, c, [hasRequestId |-> TRUE, requestId |-> 1,
                                      action |-> "TOGGLE_THEME"])
  IN
  { Ev(o, m) : o \in {HostOrigin, EvilOrigin},
               m \in {NullData, InitData(ChanB), Data(ChanA), Request(ChanA)} }
  \cup { Ev(HostOrigin, m) :
           m \in {InitData(ChanA), Resize(ChanA), Action(ChanA),
                  Data(ChanB), Action(ChanB), Request(ChanB)} }

\* Message events from the host page for the embed's action handling: the
\* init message, and a Request and an Action for every action name.
RegistryToEmbed ==
  LET Ev(m) == [origin |-> HostOrigin, data |-> m]
      M(type, fields) == createMessage(type, ChanA, fields)
  IN
  { Ev(M(MT_DATA, [payload |-> InitPayload(ChanA)])) }
  \cup { Ev(M(MT_REQUEST, [hasRequestId |-> TRUE, requestId |-> 1, action |-> a])) :
           a \in Actions }
  \cup { Ev(M(MT_ACTION, [action |-> a])) : a \in Actions }

EmbedForeign(ev) ==
  /\ Len(toHost) < MaxQueue
  /\ Len(tasks) < MaxTasks
  /\ EmbedOnMessage(ev)
  /\ UNCHANGED <<hostVars, now, variantVars, toEmbed, eMounted, eTargetOrigin, eBound,
                 actionHandlers, registered, keptUnregister, onAction, eOnMessage, scrollHeight, eLoading, deferred>>

\* ------------------------------------------------------- specification
\* The state after both documents constructed their hooks.  hostMounted /
\* embedMounted say whether the host component / the embed component using the
\* hook is on the page at all.
\* frameAttached says whether the host's owner attached iframeRef to a frame
\* element that has a contentWindow.
InitPair(hostMounted, frameAttached, embedMounted, channelIdProps) ==
  /\ hMounted = hostMounted
  /\ hFrame = frameAttached
  /\ hUrl = AbsoluteUrl
  /\ hProvidedOrigin = Undefined
  /\ hOnMessage = "cb1"
  /\ hProvidedChannelId \in channelIdProps
  /\ hChannelId = IF ~Falsy(hProvidedChannelId) THEN hProvidedChannelId
                  ELSE generateChannelId
  /\ iframeHeight = DefaultHeight
  /\ lastResize = 0
  /\ hLoading = TRUE
  /\ pendingRequests = {}
  /\ timers = {}
  /\ requestCall = [r \in ReqIds |-> [at |-> 0, timeoutMs |-> 0]]
  /\ future = [r \in ReqIds |-> Unissued]
  /\ settleCalls = [r \in ReqIds |-> 0]
  /\ loaded = FALSE
  /\ initTimers = 0
  /\ now = 0
  /\ toEmbed = <<>>
  /\ toHost = <<>>
  /\ eMounted = embedMounted
  /\ eTargetOrigin \in {Wildcard, HostOrigin}
  /\ eChannelId = Null
  /\ eBound = Null
  /\ actionHandlers = [a \in Actions |-> Undefined]
  /\ registered = [a \in Actions |-> Undefined]
  /\ onAction \in {Undefined, "onAction"}
  /\ eOnMessage = "cb1"
  /\ tasks = <<>>
  /\ scrollHeight = DefaultHeight
  /\ eLoading = FALSE
  /\ deferred = <<>>
  /\ keptUnregister = {}
  /\ last = Quiet

\* no instance of the earlier hooks is on the page
NoVariant ==
  /\ rHook = HookResize
  /\ rMounted = FALSE
  /\ rTarget = AbsoluteUrl
  /\ rChannelId = Undefined
  /\ rHeight = DefaultHeight
  /\ rLoading = TRUE
  /\ messageCallbacks = <<>>
  /\ broadcastChannel = Null

InitFrame(hostMounted, frameAttached, embedMounted, channelIdProps) ==
  /\ InitPair(hostMounted, frameAttached, embedMounted, channelIdProps)
  /\ NoVariant

InitProps(hostMounted, embedMounted, channelIdProps) ==
  InitFrame(hostMounted, hostMounted, embedMounted, channelIdProps)

\* the host is given channelId "a"
InitWith(hostMounted, embedMounted) == InitProps(hostMounted, embedMounted, {ChanA})

Init == InitWith(TRUE, TRUE)
InitHost ==
  /\ InitWith(TRUE, FALSE)
  /\ eTargetOrigin = Wildcard
  /\ onAction = Undefined
InitEmbed == InitWith(FALSE, TRUE)

\* The pair: host and embed exchange their own messages.
Next ==
  \/ HostSendData("v1")
  \/ HostSendAction("TOGGLE_THEME", Undefined)
  \/ \E t \in Timeouts : HostSendRequest("TOGGLE_THEME", "v1", t)
  \/ \E r \in ReqIds : TimeoutFires(r)
  \/ HostDeliver
  \/ \E cb \in {"cb1", "cb2"} : HostRender(cb)
  \/ Tick
  \/ FrameLoad
  \/ InitTimerFires
  \/ EmbedDeliver
  \/ \E i \in 1..MaxTasks, o \in Outcomes : EmbedHandlerSettles(i, o)
  \/ RegisterActionHandler("TOGGLE_THEME", "h1")
  \/ UnregisterActionHandler("TOGGLE_THEME")
  \/ EmbedRender(eLoading)

Spec == Init /\ [][Next]_vars

\* The host hook against arbitrary message events; the framed document runs
\* no embed hook, so what the host posts is delivered to no listener.
NextHost ==
  \/ \E t \in Timeouts : HostSendRequest("TOGGLE_THEME", "v1", t)
  \/ \E r \in ReqIds : TimeoutFires(r)
  \/ \E ev \in ForeignToHost : HostForeign(ev)
  \/ \E cb \in {"cb1", "cb2"} : HostRender(cb)
  \/ HostUnmount
  \/ Tick
  \/ EmbedDeliver

SpecHost == InitHost /\ [][NextHost]_vars

\* timers that are armed fire, and time passes
SpecHostFair ==
  /\ SpecHost
  /\ WF_vars(Tick)
  /\ \A r \in ReqIds : WF_vars(TimeoutFires(r))

\* The host hook against Response events of every origin and channel,
\* Responses with inconsistent fields among them.
NextOutcome ==
  \/ \E t \in Timeouts : HostSendRequest("TOGGLE_THEME", "v1", t)
  \/ \E r \in ReqIds : TimeoutFires(r)
  \/ \E ev \in { e \in ForeignToHost : e.data.type = MT_RESPONSE } : HostForeign(ev)
  \/ \E cb \in {"cb1", "cb2"} : HostRender(cb)
  \/ HostUnmount
  \/ Tick
  \/ EmbedDeliver
  \/ \E ev \in OddResponsesToHost : HostForeign(ev)

SpecOutcome == InitHost /\ [][NextOutcome]_vars

\* The embed hook against arbitrary message events; no host hook listens.
NextEmbed ==
  \/ HostDeliver
  \/ \E ev \in ForeignToEmbed : EmbedForeign(ev)
  \/ \E i \in 1..MaxTasks, o \in Outcomes : EmbedHandlerSettles(i, o)
  \/ RegisterActionHandler("TOGGLE_THEME", "h1")
  \/ UnregisterActionHandler("TOGGLE_THEME")
  \/ EmbedRender(eLoading)
  \/ EmbedUnmount

SpecEmbed == InitEmbed /\ [][NextEmbed]_vars

\* The embed hook with handlers registered, replaced and unregistered under
\* several action names while Requests and Actions for them arrive.
NextRegistry ==
  \/ HostDeliver
  \/ \E ev \in RegistryToEmbed : EmbedForeign(ev)
  \/ \E i \in 1..MaxTasks, o \in Outcomes : EmbedHandlerSettles(i, o)
  \/ \E a \in Actions, h \in HandlerIds : RegisterActionHandler(a, h)
  \/ \E a \in Actions : UnregisterActionHandler(a)
  \/ EmbedRender(eLoading)

InitRegistry == InitEmbed /\ eTargetOrigin = Wildcard

SpecRegistry == InitRegistry /\ [][NextRegistry]_vars

\* The pair during auto-resize: the frame loads, the init message goes out,
\* the embed adopts the channel, renders, observes its content and notifies;
\* the content may change size and the loading flag may flip at any time.
NextResize ==
  \/ FrameLoad
  \/ InitTimerFires
  \/ EmbedDeliver
  \/ \E loading \in BOOLEAN : EmbedRender(loading)
  \/ DeferredNotify
  \/ \E h \in Heights : ContentResize(h)
  \/ HostDeliver

SpecResize == Init /\ [][NextResize]_vars

\* the load event fires, armed timers fire, queued message events are
\* dispatched in order and a render scheduled by setChannelId commits
SpecResizeFair ==
  /\ SpecResize
  /\ WF_vars(FrameLoad)
  /\ WF_vars(InitTimerFires)
  /\ WF_vars(EmbedDeliver)
  /\ WF_vars(EmbedRender(eLoading))
  /\ WF_vars(DeferredNotify)
  /\ WF_vars(HostDeliver)

\* The pair during auto-resize, where the embed component may also unmount
\* while zero-delay notifications are still scheduled.
NextLoading ==
  \/ NextResize
  \/ EmbedUnmount

SpecLoading == Init /\ [][NextLoading]_vars

\* Both hooks under every configuration of url and targetOrigin, each
\* receiving one well-formed message event from every origin.
AllowedOrigins == {Wildcard, RelativeUrl, AbsoluteUrl} \cup Origins

OriginProbesToHost ==
  { [origin |-> o,
     data |-> createMessage(MT_RESIZE, ChanA, [heightType |-> "number", height |-> 620])] :
    o \in Origins }

OriginProbesToEmbed ==
  { [origin |-> o,
     data |-> createMessage(MT_DATA, ChanA, [payload |-> InitPayload(ChanA)])] :
    o \in Origins }

InitOrigin ==
  /\ hMounted = TRUE
  /\ hFrame = TRUE
  /\ hUrl \in Urls
  /\ hProvidedOrigin \in {Undefined, ""} \cup AllowedOrigins
  /\ hOnMessage = "cb1"
  /\ hProvidedChannelId = ChanA
  /\ hChannelId = ChanA
  /\ iframeHeight = DefaultHeight
  /\ lastResize = 0
  /\ hLoading = TRUE
  /\ pendingRequests = {}
  /\ timers = {}
  /\ requestCall = [r \in ReqIds |-> [at |-> 0, timeoutMs |-> 0]]
  /\ future = [r \in ReqIds |-> Unissued]
  /\ settleCalls = [r \in ReqIds |-> 0]
  /\ loaded = FALSE
  /\ initTimers = 0
  /\ now = 0
  /\ toEmbed = <<>>
  /\ toHost = <<>>
  /\ eMounted = TRUE
  /\ eTargetOrigin \in AllowedOrigins
  /\ eChannelId = Null
  /\ eBound = Null
  /\ actionHandlers = [a \in Actions |-> Undefined]
  /\ registered = [a \in Actions |-> Undefined]
  /\ onAction = Undefined
  /\ eOnMessage = "cb1"
  /\ tasks = <<>>
  /\ scrollHeight = DefaultHeight
  /\ eLoading = FALSE
  /\ deferred = <<>>
  /\ keptUnregister = {}
  /\ NoVariant
  /\ last = Quiet

NextOrigin ==
  \/ \E ev \in OriginProbesToHost : HostForeign(ev)
  \/ \E ev \in OriginProbesToEmbed : EmbedForeign(ev)

SpecOrigin == InitOrigin /\ [][NextOrigin]_vars

\* The pair with the host sending every kind of message, under every url
\* and with and without a targetOrigin override given as '*' or an origin.
InitTarget ==
  /\ InitOrigin
  /\ hProvidedOrigin \in {Undefined, "", Wildcard} \cup Origins
  /\ eTargetOrigin = Wildcard

NextTarget ==
  \/ \E v \in Values : HostSendData(v)
  \/ \E a \in Actions : HostSendAction(a, Undefined)
  \/ \E t \in Timeouts : HostSendRequest("GET_DATA", "v1", t)
  \/ FrameLoad
  \/ InitTimerFires
  \/ EmbedDeliver
  \/ HostDeliver
  \/ EmbedRender(eLoading)

SpecTarget == InitTarget /\ [][NextTarget]_vars

\* The host hook mounted with or without a channelId prop, re-rendered
\* with other props while it sends every kind of message; the framed document
\* runs no embed hook.
ChannelIdProps == {Undefined, "", ChanA, ChanB}

InitChannel ==
  /\ InitProps(TRUE, FALSE, ChannelIdProps)
  /\ eTargetOrigin = Wildcard
  /\ onAction = Undefined

NextChannel ==
  \/ \E c \in ChannelIdProps : HostRenderChannel(c)
  \/ \E cb \in {"cb1", "cb2"} : HostRender(cb)
  \/ \E v \in Values : HostSendData(v)
  \/ \E a \in Actions : HostSendAction(a, Undefined)
  \/ \E t \in Timeouts : HostSendRequest("GET_DATA", "v1", t)
  \/ FrameLoad
  \/ InitTimerFires
  \/ EmbedDeliver

SpecChannel == InitChannel /\ [][NextChannel]_vars

\* The pair with every send of either hook: init, Data, Action and Request
\* from the host; Resize, Data and Response from the embed.
NextTraffic ==
  \/ \E v \in Values : HostSendData(v)
  \/ \E a \in Actions : HostSendAction(a, Undefined)
  \/ \E t \in Timeouts : HostSendRequest("GET_DATA", "v1", t)
  \/ FrameLoad
  \/ InitTimerFires
  \/ EmbedDeliver
  \/ HostDeliver
  \/ EmbedRender(eLoading)
  \/ \E h \in Heights : ContentResize(h)
  \/ \E v \in Values : EmbedSendData(v)
  \/ \E i \in 1..MaxTasks, o \in Outcomes : EmbedHandlerSettles(i, o)
  \/ RegisterActionHandler("GET_DATA", "h1")

InitTraffic ==
  /\ Init
  /\ eTargetOrigin = Wildcard
  /\ onAction = Undefined

SpecTraffic == InitTraffic /\ [][NextTraffic]_vars

\* Data messages from the host page's origin whose payload has init set
\* but no usable channelId.
OddInitsToEmbed ==
  { [origin |-> HostOrigin,
     data |-> createMessage(MT_DATA, ChanA, [payload |-> InitPayload(c)])] :
    c \in {Undefined, ""} }

\* The embed hook against arbitrary message events, incomplete init
\* messages among them.
NextHandshake ==
  \/ NextEmbed
  \/ \E ev \in OddInitsToEmbed : EmbedForeign(ev)

SpecHandshake == InitEmbed /\ [][NextHandshake]_vars

\* The host hook while the frame loads, loads again and is removed; the
\* framed document runs no embed hook.
NextInit ==
  \/ FrameLoad
  \/ FrameReload
  \/ InitTimerFires
  \/ \E v \in Values : HostSendData(v)
  \/ \E t \in Timeouts : HostSendRequest("GET_DATA", "v1", t)
  \/ \E cb \in {"cb1", "cb2"} : HostRender(cb)
  \/ HostUnmount
  \/ EmbedDeliver

SpecInit == InitHost /\ [][NextInit]_vars

\* Both hooks on a page whose other frames post message events to both
\* windows; the embed serves requests with neither handler nor onAction.
NextDispatch ==
  \/ \E t \in Timeouts : HostSendRequest("TOGGLE_THEME", "v1", t)
  \/ HostDeliver
  \/ \E ev \in ForeignToHost : HostForeign(ev)
  \/ EmbedDeliver
  \/ \E ev \in ForeignToEmbed : EmbedForeign(ev)
  \/ EmbedRender(eLoading)

InitDispatch == Init /\ onAction = Undefined

SpecDispatch == InitDispatch /\ [][NextDispatch]_vars

\* Event payloads that are no well-formed message: null; a primitive, whose
\* every property reads undefined; an object without a type or with an
\* unknown one; a Resize whose height is a string or is missing.
MalformedData ==
  { NullData,
    BlankMessage,
    createMessage(Undefined, ChanA, [prov |-> NoProv]),
    createMessage("bogus", ChanA, [prov |-> NoProv]),
    createMessage(MT_RESIZE, ChanA, [heightType |-> "string"]),
    createMessage(MT_RESIZE, ChanA, [heightType |-> "undefined"]) }

MalformedToHost == { [origin |-> ChildOrigin, data |-> m] : m \in MalformedData }
MalformedToEmbed == { [origin |-> HostOrigin, data |-> m] : m \in MalformedData }

\* Both hooks receiving such payloads while a request is pending, a handler
\* is registered and the channel id is being adopted.
NextMalformed ==
  \/ \E t \in Timeouts : HostSendRequest("GET_DATA", "v1", t)
  \/ FrameLoad
  \/ InitTimerFires
  \/ HostDeliver
  \/ EmbedDeliver
  \/ EmbedRender(eLoading)
  \/ \E h \in HandlerIds : RegisterActionHandler("TOGGLE_THEME", h)
  \/ \E ev \in MalformedToHost : HostForeign(ev)
  \/ \E ev \in MalformedToEmbed : EmbedForeign(ev)

SpecMalformed == InitDispatch /\ [][NextMalformed]_vars

\* Responses from the framed document's origin that carry a request id
\* the host may have pending, on the host's channel and on another one.
CrossTalkResponses ==
  { [origin |-> ChildOrigin,
     data |-> createMessage(MT_RESPONSE, c,
                [hasRequestId |-> TRUE, requestId |-> r, success |-> ok,
                 payload |-> IF ok THEN PlainPayload("v1") ELSE NoPayload,
                 error |-> IF ok THEN Undefined ELSE "boom"])] :
    c \in {ChanA, ChanB}, r \in ReqIds, ok \in BOOLEAN }

\* The host hook with requests pending while another pair of the page
\* answers requests of its own that happen to carry the same request ids.
NextCrossTalk ==
  \/ \E t \in Timeouts : HostSendRequest("GET_DATA", "v1", t)
  \/ \E r \in ReqIds : TimeoutFires(r)
  \/ Tick
  \/ EmbedDeliver
  \/ \E ev \in CrossTalkResponses : HostForeign(ev)

SpecCrossTalk == InitHost /\ [][NextCrossTalk]_vars

\* The host hook of an owner that renders no frame element, given a
\* channelId prop or none: iframeRef.current stays null while requests are
\* made, the owner re-renders and unmounts.
InitNoFrame ==
  /\ InitFrame(TRUE, FALSE, FALSE, ChannelIdProps)
  /\ eTargetOrigin = Wildcard
  /\ onAction = Undefined

NextNoFrame ==
  \/ \E t \in Timeouts : HostSendRequest("GET_DATA", "v1", t)
  \/ \E r \in ReqIds : TimeoutFires(r)
  \/ Tick
  \/ \E cb \in {"cb1", "cb2"} : HostRender(cb)
  \/ HostUnmount

SpecNoFrame == InitNoFrame /\ [][NextNoFrame]_vars

\* timers that are armed fire, and time passes
SpecNoFrameFair ==
  /\ SpecNoFrame
  /\ WF_vars(Tick)
  /\ \A r \in ReqIds : WF_vars(TimeoutFires(r))

\* The pair during auto-resize while other frames of the page post Resize,
\* Data and null events to the host window, the host re-renders and the
\* frame loads its document again.
NextHeight ==
  \/ FrameLoad
  \/ FrameReload
  \/ InitTimerFires
  \/ EmbedDeliver
  \/ EmbedRender(eLoading)
  \/ \E h \in Heights : ContentResize(h)
  \/ HostDeliver
  \/ \E ev \in { e \in ForeignToHost : e.data.type # MT_RESPONSE } : HostForeign(ev)
  \/ \E cb \in {"cb1", "cb2"} : HostRender(cb)

SpecHeight == InitTraffic /\ [][NextHeight]_vars

\* The pair with the host sending Data, Actions and Requests to an embed
\* that has a handler, only the onAction callback, or neither, and whose
\* handlers return or throw.
NextOneWay ==
  \/ \E v \in Values : HostSendData(v)
  \/ \E a \in Actions : HostSendAction(a, Undefined)
  \/ \E t \in Timeouts : HostSendRequest("TOGGLE_THEME", "v1", t)
  \/ FrameLoad
  \/ InitTimerFires
  \/ EmbedDeliver
  \/ HostDeliver
  \/ EmbedRender(eLoading)
  \/ \E i \in 1..MaxTasks, o \in Outcomes : EmbedHandlerSettles(i, o)
  \/ RegisterActionHandler("TOGGLE_THEME", "h1")
  \/ UnregisterActionHandler("TOGGLE_THEME")

InitOneWay == Init /\ eTargetOrigin = Wildcard

SpecOneWay == InitOneWay /\ [][NextOneWay]_vars

\* registerActionHandler(action, handler) by a caller that keeps the returned
\* unregister function to call it later
RegisterActionHandlerKept(a, h) ==
  /\ eMounted
  /\ <<a, h>> \notin keptUnregister
  /\ actionHandlers' = [actionHandlers EXCEPT ![a] = h]
  /\ registered' = [registered EXCEPT ![a] = h]
  /\ keptUnregister' = keptUnregister \cup {<<a, h>>}
  /\ last' = Quiet
  /\ UNCHANGED <<hostVars, now, variantVars, toEmbed, toHost, eMounted, eTargetOrigin, eChannelId,
                 eBound, onAction, eOnMessage, tasks, scrollHeight, eLoading, deferred>>

\* the unregister function returned by registerActionHandler(a, h) is called:
\* actionHandlersRef.current.delete(action)
CallUnregister(a, h) ==
  /\ <<a, h>> \in keptUnregister
  /\ actionHandlers' = [actionHandlers EXCEPT ![a] = Undefined]
  /\ registered' = [registered EXCEPT ![a] = Undefined]
  /\ keptUnregister' = keptUnregister \ {<<a, h>>}
  /\ last' = Observed("unregister", h, {}, <<>>, 0)
  /\ UNCHANGED <<hostVars, now, variantVars, toEmbed, toHost, eMounted, eTargetOrigin, eChannelId,
                 eBound, onAction, eOnMessage, tasks, scrollHeight, eLoading, deferred>>

\* The embed's owner registers handlers, registers others under the same
\* names, and calls the unregister functions it kept in any order, while
\* Requests and Actions for the names arrive.
NextUnregister ==
  \/ \E a \in Actions, h \in HandlerIds : RegisterActionHandlerKept(a, h)
  \/ \E a \in Actions, h \in HandlerIds : CallUnregister(a, h)
  \/ \E ev \in RegistryToEmbed : EmbedForeign(ev)
  \/ \E i \in 1..MaxTasks, o \in Outcomes : EmbedHandlerSettles(i, o)
  \/ EmbedRender(eLoading)
  \/ HostDeliver

InitUnregister == InitEmbed /\ eTargetOrigin = Wildcard /\ onAction = Undefined

SpecUnregister == InitUnregister /\ [][NextUnregister]_vars

\* ------------------------------------------- earlier hooks with onMessage
\* useIframeResize and the combined hook in parent mode sit in the host page
VariantIsHost(hook) == hook \in {HookResize, HookParent}

\* useIframeResize and the combined hook open a BroadcastChannel(channelId)
VariantBroadcasts(hook) == hook # HookContentResize

\* the origin test at the head of handleMessage:
\*   useIframeResize         event.origin !== new URL(url, window.location.origin).origin
\*   combined hook           mode === 'parent' && event.origin !== targetOrigin
\*   useIframeContentResize  none
VariantOriginOk(hook, target, eventOrigin) ==
  IF VariantIsHost(hook) THEN eventOrigin = UrlOrigin(target, HostOrigin)
  ELSE TRUE

\* messageCallbacks.current.forEach(callback => callback(data))
VariantCallbacks(data) == [i \in 1..Len(messageCallbacks) |-> data]

\* handleMessage of the window listener
\* variant: with a broadcast channel open, data and action messages are left
\* to the broadcast listener
VariantOnMessage_DefersToBroadcast(ev) ==
  LET data == ev.data
      Seen(branch, forwarded, logged) ==
        /\ last' = Observed("variantMessage", branch, {}, forwarded, logged)
        /\ UNCHANGED <<rHeight, rLoading>>
  IN
  IF ~rMounted THEN Seen("noListener", <<>>, 0)
  ELSE IF ~VariantOriginOk(rHook, rTarget, ev.origin) THEN Seen("origin", <<>>, 0)
  ELSE IF IsNull(data) THEN Seen("threw", <<>>, 1)
  ELSE IF ~Falsy(rChannelId) /\ data.channelId # rChannelId THEN Seen("channel", <<>>, 0)
  ELSE IF data.type = MT_RESIZE THEN
    IF VariantIsHost(rHook) /\ HeightIsNumber(data)
    THEN /\ rHeight' = data.height
         /\ rLoading' = FALSE
         /\ last' = Observed("variantMessage", "resize", {}, <<>>, 0)
    ELSE Seen("resizeIgnored", <<>>, 0)
  ELSE IF data.type \in {MT_DATA, MT_ACTION} THEN
    IF broadcastChannel = "open" THEN Seen("default", <<>>, 0)
    ELSE Seen("callbacks", VariantCallbacks(data), 0)
  ELSE Seen("default", <<>>, 0)

VariantOnMessage(ev) ==
  LET data == ev.data
      Seen(branch, forwarded, logged) ==
        /\ last' = Observed("variantMessage", branch, {}, forwarded, logged)
        /\ UNCHANGED <<rHeight, rLoading>>
  IN
  IF ~rMounted THEN Seen("noListener", <<>>, 0)
  ELSE IF ~VariantOriginOk(rHook, rTarget, ev.origin) THEN Seen("origin", <<>>, 0)
  ELSE IF IsNull(data) THEN Seen("threw", <<>>, 1)
  ELSE IF ~Falsy(rChannelId) /\ data.channelId # rChannelId THEN Seen("channel", <<>>, 0)
  ELSE IF data.type = MT_RESIZE THEN
    IF VariantIsHost(rHook) /\ HeightIsNumber(data)
    THEN /\ rHeight' = data.height
         /\ rLoading' = FALSE
         /\ last' = Observed("variantMessage", "resize", {}, <<>>, 0)
    ELSE Seen("resizeIgnored", <<>>, 0)
  ELSE IF data.type \in {MT_DATA, MT_ACTION} THEN
    Seen("callbacks", VariantCallbacks(data), 0)
  ELSE Seen("default", <<>>, 0)

\* a message event at the window the hook listens on
VariantForeign(ev) ==
  /\ VariantOnMessage(ev)
  /\ UNCHANGED <<hostVars, now, rHook, rMounted, rTarget, rChannelId, messageCallbacks,
                 broadcastChannel, toEmbed, toHost, embedVars>>

\* handleBroadcastMessage / handleBroadcast of the BroadcastChannel listener
VariantOnBroadcast(data) ==
  LET Seen(branch, forwarded, logged) ==
        /\ last' = Observed("broadcast", branch, {}, forwarded, logged)
        /\ UNCHANGED <<rHeight, rLoading>>
  IN
  IF broadcastChannel # "open" THEN Seen("closed", <<>>, 0)
  ELSE IF IsNull(data) THEN Seen("threw", <<>>, 1)
  ELSE IF data.type \in {MT_DATA, MT_ACTION}
  THEN Seen("callbacks", VariantCallbacks(data), 0)
  ELSE Seen("default", <<>>, 0)

\* another context posts data on the BroadcastChannel named by the channel id
VariantBroadcast(data) ==
  /\ VariantOnBroadcast(data)
  /\ UNCHANGED <<hostVars, now, rHook, rMounted, rTarget, rChannelId, messageCallbacks,
                 broadcastChannel, toEmbed, toHost, embedVars>>

\* onMessage(callback): messageCallbacks.current.push(callback)
VariantSubscribe(cb) ==
  /\ rMounted
  /\ Len(messageCallbacks) < Cardinality(CallbackIds)
  /\ messageCallbacks' = Append(messageCallbacks, cb)
  /\ last' = Quiet
  /\ UNCHANGED <<hostVars, now, rHook, rMounted, rTarget, rChannelId, rHeight, rLoading,
                 broadcastChannel, toEmbed, toHost, embedVars>>

\* the function returned by onMessage(callback):
\* messageCallbacks.current.filter(cb => cb !== callback)
VariantUnsubscribe(cb) ==
  /\ \E i \in 1..Len(messageCallbacks) : messageCallbacks[i] = cb
  /\ messageCallbacks' = SelectSeq(messageCallbacks, LAMBDA c : c # cb)
  /\ last' = Quiet
  /\ UNCHANGED <<hostVars, now, rHook, rMounted, rTarget, rChannelId, rHeight, rLoading,
                 broadcastChannel, toEmbed, toHost, embedVars>>

\* the effect that owns the BroadcastChannel, after its cleanup ran:
\* close() on the channel that was open, a new channel if channelId is given
VariantChannelEffect(hook, wasOpen, channelId) ==
  IF VariantBroadcasts(hook) /\ ~Falsy(channelId) THEN "open"
  ELSE IF wasOpen = "open" THEN "closed"
  ELSE wasOpen

\* the owner renders with another channelId prop: the listener and broadcast
\* effects are cleaned up and run again
VariantRender(channelId) ==
  /\ rMounted
  /\ channelId # rChannelId
  /\ rChannelId' = channelId
  /\ broadcastChannel' = VariantChannelEffect(rHook, broadcastChannel, channelId)
  /\ last' = Quiet
  /\ UNCHANGED <<hostVars, now, rHook, rMounted, rTarget, rHeight, rLoading,
                 messageCallbacks, toEmbed, toHost, embedVars>>

\* the cleanups at unmount: removeEventListener, and close() on an open channel
\* variant: the BroadcastChannel is left open
VariantUnmount_LeavesChannel ==
  /\ rMounted
  /\ rMounted' = FALSE
  /\ broadcastChannel' = broadcastChannel
  /\ last' = Quiet
  /\ UNCHANGED <<hostVars, now, rHook, rTarget, rChannelId, rHeight, rLoading,
                 messageCallbacks, toEmbed, toHost, embedVars>>

VariantUnmount ==
  /\ rMounted
  /\ rMounted' = FALSE
  /\ broadcastChannel' = IF broadcastChannel = "open" THEN "closed" ELSE broadcastChannel
  /\ last' = Quiet
  /\ UNCHANGED <<hostVars, now, rHook, rTarget, rChannelId, rHeight, rLoading,
                 messageCallbacks, toEmbed, toHost, embedVars>>

\* message events reaching the window of an earlier hook, from every origin
VariantEvents ==
  LET M(type, c, fields) == createMessage(type, c, fields) IN
  { [origin |-> o, data |-> d] :
      o \in Origins,
      d \in { M(MT_DATA, c, [payload |-> PlainPayload("v1")]) : c \in {ChanA, ChanB, Undefined} }
        \cup { M(MT_ACTION, ChanA, [action |-> "TOGGLE_THEME"]),
               M(MT_RESIZE, ChanA, [heightType |-> "number", height |-> 620]),
               M(MT_RESIZE, ChanA, [heightType |-> "string", height |-> 620]),
               M(MT_REQUEST, ChanA, [hasRequestId |-> TRUE, requestId |-> 1,
                                      action |-> "GET_DATA"]),
               NullData } }

\* what other contexts post on the BroadcastChannel
BroadcastData ==
  LET M(type, fields) == createMessage(type, ChanA, fields) IN
  { M(MT_DATA, [payload |-> PlainPayload("v1")]),
    M(MT_ACTION, [action |-> "TOGGLE_THEME"]),
    M(MT_RESIZE, [heightType |-> "number", height |-> 620]),
    M(MT_REQUEST, [hasRequestId |-> TRUE, requestId |-> 1, action |-> "GET_DATA"]),
    NullData }

\* One instance of an earlier hook after construction and its first effects,
\* alone on the page.
InitVariant(hooks) ==
  /\ InitPair(FALSE, FALSE, FALSE, {ChanA})
  /\ eTargetOrigin = Wildcard
  /\ onAction = Undefined
  /\ rHook \in hooks
  /\ rMounted = TRUE
  /\ rTarget \in IF VariantIsHost(rHook) THEN Urls ELSE {Wildcard, HostOrigin}
  /\ rChannelId \in {Undefined, ChanA}
  /\ rHeight = DefaultHeight
  /\ rLoading = (rHook # HookContentResize)
  /\ messageCallbacks = <<>>
  /\ broadcastChannel = VariantChannelEffect(rHook, Null, rChannelId)

\* An embed-side earlier hook (useIframeContentResize with onMessage, or the
\* combined hook in child mode) receiving message events from every origin.
NextChildVariant ==
  \/ \E ev \in VariantEvents : VariantForeign(ev)
  \/ \E d \in BroadcastData : VariantBroadcast(d)
  \/ \E cb \in CallbackIds : VariantSubscribe(cb)
  \/ \E cb \in CallbackIds : VariantUnsubscribe(cb)
  \/ \E c \in {Undefined, ChanA} : VariantRender(c)
  \/ VariantUnmount

SpecChildVariant == InitVariant({HookContentResize, HookChild}) /\ [][NextChildVariant]_vars

\* A host-side earlier hook (useIframeResize, or the combined hook in parent
\* mode) with messages arriving on the window and on the BroadcastChannel
\* while the owner subscribes callbacks and changes the channelId prop.
NextBroadcast ==
  \/ \E ev \in VariantEvents : VariantForeign(ev)
  \/ \E d \in BroadcastData : VariantBroadcast(d)
  \/ \E cb \in CallbackIds : VariantSubscribe(cb)
  \/ \E cb \in CallbackIds : VariantUnsubscribe(cb)
  \/ \E c \in {Undefined, ChanA} : VariantRender(c)
  \/ VariantUnmount

SpecBroadcast == InitVariant({HookResize, HookParent}) /\ [][NextBroadcast]_vars

\* The host hook, the embed hook and a useIframeResize instance on one page,
\* each torn down at any moment while messages, broadcasts, size changes and
\* timers go on.
TeardownEvents(events) ==
  { e \in events : /\ e.origin \in {HostOrigin, ChildOrigin}
                   /\ ~IsNull(e.data)
                   /\ e.data.channelId = ChanA
                   /\ e.data.type \in {MT_DATA, MT_RESIZE}
                   /\ e.data.type = MT_RESIZE => e.data.heightType = "number" }

NextTeardown ==
  \/ FrameLoad
  \/ InitTimerFires
  \/ HostDeliver
  \/ \E ev \in TeardownEvents(ForeignToHost) : HostForeign(ev)
  \/ HostUnmount
  \/ EmbedDeliver
  \/ \E ev \in TeardownEvents(ForeignToEmbed) : EmbedForeign(ev)
  \/ \E loading \in BOOLEAN : EmbedRender(loading)
  \/ DeferredNotify
  \/ \E h \in Heights : ContentResize(h)
  \/ EmbedUnmount
  \/ VariantSubscribe("cbA")
  \/ \E ev \in TeardownEvents(VariantEvents) : VariantForeign(ev)
  \/ \E d \in { m \in BroadcastData : m.type \in {MT_DATA, MT_RESIZE} } : VariantBroadcast(d)
  \/ VariantUnmount

InitTeardown ==
  /\ InitPair(TRUE, TRUE, TRUE, {ChanA})
  /\ eTargetOrigin = Wildcard
  /\ onAction = Undefined
  /\ rHook = HookResize
  /\ rMounted = TRUE
  /\ rTarget = AbsoluteUrl
  /\ rChannelId = ChanA
  /\ rHeight = DefaultHeight
  /\ rLoading = TRUE
  /\ messageCallbacks = <<>>
  /\ broadcastChannel = VariantChannelEffect(rHook, Null, rChannelId)

SpecTeardown == InitTeardown /\ [][NextTeardown]_vars

TypeOK ==
  /\ pendingRequests \subseteq ReqIds
  /\ timers \subseteq ReqIds
  /\ Len(toHost) <= MaxQueue
  /\ Len(toEmbed) <= MaxQueue
  /\ Len(tasks) <= MaxTasks

\* ------------------------------------------------------------------ C1
\* C1: a message whose channelId differs from the channel id a listener is
\* bound to makes that listener call no handler or callback, send nothing and
\* change none of its own state; this holds for the host listener and for an
\* embed listener bound to a channel id.
C1_ChannelIsolation ==
  [][ LET hostUntouched ==
            /\ UNCHANGED hostVars
            /\ last'.settle = {}
            /\ last'.forwarded = <<>>
            /\ last'.logged = 0
          embedUntouched ==
            /\ UNCHANGED embedVars
            /\ toHost' = toHost
            /\ last'.forwarded = <<>>
            /\ last'.logged = 0
      IN
      /\ last'.op = "hostMessage" =>
          \/ hostUntouched
          \/ LET Case(ev) ==
                    ( /\ ~IsNull(ev.data)
                      /\ ev.data.channelId # hChannelId
                      /\ HostOnMessage(ev) )
                    => hostUntouched
             IN /\ \A ev \in ForeignToHost : Case(ev)
                /\ toHost # <<>> => Case(Head(toHost))
      /\ last'.op = "embedMessage" =>
          \/ embedUntouched
          \/ LET Case(ev) ==
                    ( /\ eBound # Null
                      /\ ~IsNull(ev.data)
                      /\ ev.data.channelId # eBound
                      /\ EmbedOnMessage(ev) )
                    => embedUntouched
             IN /\ \A ev \in ForeignToEmbed : Case(ev)
                /\ toEmbed # <<>> => Case(Head(toEmbed))
    ]_vars

\* a bound embed has just dropped a message of another channel while the host,
\* holding a pending request, had a message of another channel queued
C1_Witness ==
  /\ last.op = "embedMessage"
  /\ last.branch = "channel"
  /\ eBound = hChannelId
  /\ pendingRequests # {}

\* the host has just dropped a message of another channel while a request was pending
C1_WitnessHost ==
  /\ last.op = "hostMessage"
  /\ last.branch = "channel"
  /\ pendingRequests # {}

\* ------------------------------------------------------------------ C2
\* C2: with a target origin other than the wildcard, a message event whose
\* origin differs from the resolved target origin is dropped before anything
\* of its payload is read: no state change, no callback, nothing sent, nothing
\* logged, for every kind of payload (null included), on host and embed.
C2_OriginCheck ==
  [][ LET hostRejected ==
            /\ UNCHANGED hostVars
            /\ last' = Observed("hostMessage", "origin", {}, <<>>, 0)
          embedRejected ==
            /\ UNCHANGED embedVars
            /\ toHost' = toHost
            /\ last' = Observed("embedMessage", "origin", {}, <<>>, 0)
          hostAllowed == UrlOrigin(hTargetOrigin, HostOrigin)
          embedAllowed == UrlOrigin(eTargetOrigin, EmbedOrigin)
      IN
      /\ (last'.op = "hostMessage" /\ hMounted /\ hTargetOrigin # Wildcard) =>
          \/ hostRejected
          \/ LET Case(ev) ==
                    (ev.origin # hostAllowed /\ HostOnMessage(ev)) => hostRejected
             IN /\ \A ev \in ForeignToHost : Case(ev)
                /\ toHost # <<>> => Case(Head(toHost))
      /\ (last'.op = "embedMessage" /\ eMounted /\ eTargetOrigin # Wildcard) =>
          \/ embedRejected
          \/ LET Case(ev) ==
                    (ev.origin # embedAllowed /\ EmbedOnMessage(ev)) => embedRejected
             IN /\ \A ev \in ForeignToEmbed : Case(ev)
                /\ toEmbed # <<>> => Case(Head(toEmbed))
    ]_vars

\* the embed, bound to a channel and configured with a concrete target
\* origin, has just rejected an event by origin
C2_Witness ==
  /\ last.op = "embedMessage"
  /\ last.branch = "origin"
  /\ eTargetOrigin # Wildcard
  /\ eBound # Null

\* ------------------------------------------------------------------ C3
\* C3: when the Response that a registered handler's return value produced
\* for a request reaches the host before the request's deadline, on the
\* host's channel, and the request's future is still unsettled, the future
\* becomes resolved with exactly the returned value and the pending map
\* holds no entry for the request id.
C3_RoundTrip ==
  [][ (last'.op = "hostMessage" /\ toHost # <<>>) =>
        LET m == Head(toHost).data IN
        ( /\ m.type = MT_RESPONSE
          /\ m.prov.by \in HandlerIds
          /\ m.prov.kind = "return"
          /\ m.channelId = hChannelId
          /\ m.requestId \in ReqIds
          /\ future[m.requestId].state = "pending"
          /\ now < Deadline(m.requestId)
          /\ HostDeliver )
        => /\ future'[m.requestId] = Resolved(PlainPayload(m.prov.v))
           /\ m.requestId \notin pendingRequests'
    ]_vars

\* ------------------------------------------------------------------ C4
\* C4: every request that is not answered is eventually rejected with the
\* timeout error, not before timeoutMs has elapsed since the call, and its
\* pending entry is then gone.
C4_Timeout ==
  \A r \in ReqIds :
    (future[r].state = "pending")
      ~> \/ future[r].state \in {"resolved", "rejected_error"}
         \/ /\ future[r] = RejectedTimeout(requestCall[r].timeoutMs)
            /\ now >= Deadline(r)
            /\ r \notin pendingRequests

\* ------------------------------------------------------------------ C5
\* C5: resolve/reject is called at most once per request, a future moves only
\* from pending to resolved, rejected(error) or rejected(timeout) and never
\* leaves those, and a settled request has neither a pending entry nor an
\* armed timer, so neither path can run for it again.
Terminal == {"resolved", "rejected_error", "rejected_timeout"}

C5_ExactlyOnce ==
  /\ [](\A r \in ReqIds :
          /\ settleCalls[r] <= 1
          /\ settleCalls[r] = 1 <=> future[r].state \in Terminal
          /\ future[r].state \in Terminal =>
               (r \notin pendingRequests /\ r \notin timers))
  /\ [][\A r \in ReqIds :
          /\ future[r].state \in Terminal => future'[r] = future[r]
          /\ future[r].state = "pending" =>
               future'[r].state \in Terminal \cup {"pending"}
          /\ future'[r].state = "resolved" /\ future[r].state # "resolved" =>
               last'.settle = {<<r, "resolve">>}
          /\ future'[r].state = "rejected_timeout"
               /\ future[r].state # "rejected_timeout" =>
               last'.op = "timeout"
      ]_vars

\* one request was resolved by a Response, another rejected by its timeout,
\* and a further Response has just found no entry
C5_Witness ==
  /\ last.op = "hostMessage"
  /\ last.branch = "responseIgnored"
  /\ \E r1, r2 \in ReqIds :
       /\ future[r1].state = "resolved"
       /\ future[r2].state = "rejected_timeout"

\* ------------------------------------------------------------------ C6
\* C6: while the host stays mounted, a pending entry is removed and its timer
\* cancelled only by a step that settles the request: the first matching
\* Response or its own timeout.
C6_OnlyResponseOrTimeoutRemoves ==
  [][\A r \in ReqIds :
       ( /\ hMounted'
         /\ \/ r \in pendingRequests /\ r \notin pendingRequests'
            \/ r \in timers /\ r \notin timers' )
       => \E how \in {"resolve", "reject"} : <<r, how>> \in last'.settle
    ]_vars

\* ------------------------------------------------------------------ C7
\* C7: once the host is unmounted no issued request is left unsettled and no
\* timer is armed.
C7_TeardownRejects ==
  ~hMounted =>
    /\ \A r \in ReqIds : future[r].state # "pending"
    /\ timers = {}

\* ------------------------------------------------------------------ C8
\* C8: a timeout timer is armed for a request id exactly when the pending map
\* holds an entry for it; after teardown the map is empty, no timer is armed
\* and no step settles a future.
C8_NoOrphanTimers ==
  /\ [](/\ timers = pendingRequests
        /\ ~hMounted => (pendingRequests = {} /\ timers = {}))
  /\ [][~hMounted => (future' = future /\ settleCalls' = settleCalls)]_vars

\* after teardown with a request still unsettled, a message event has been
\* dispatched to the host window
C8_Witness ==
  /\ ~hMounted
  /\ last.op = "hostMessage"
  /\ last.branch = "noListener"
  /\ \E r \in ReqIds : future[r].state = "pending"

\* ------------------------------------------------------------------ C9
\* C9: a Response, on any channel, whose requestId has no pending entry
\* settles no future, is not passed to onMessage and leaves height, loading
\* flag, pending map and timers as they were.
C9_ResponseWithoutEntryIgnored ==
  [][ LET ignored ==
            /\ UNCHANGED <<iframeHeight, hLoading, pendingRequests, timers, future,
                           settleCalls>>
            /\ last'.settle = {}
            /\ last'.forwarded = <<>>
      IN
      last'.op = "hostMessage" =>
        \/ ignored
        \/ LET Case(ev) ==
                  ( /\ ~IsNull(ev.data)
                    /\ ev.data.type = MT_RESPONSE
                    /\ ev.data.requestId \notin pendingRequests
                    /\ HostOnMessage(ev) )
                  => ignored
           IN /\ \A ev \in ForeignToHost : Case(ev)
              /\ toHost # <<>> => Case(Head(toHost))
    ]_vars

\* a Response for a request that already timed out has just been ignored
C9_Witness ==
  /\ last.op = "hostMessage"
  /\ last.branch = "responseIgnored"
  /\ hMounted
  /\ \E r \in ReqIds : future[r].state = "rejected_timeout"

\* ----------------------------------------------------------------- C10
IsResponseFor(m, requestId, channelId) ==
  /\ m.type = MT_RESPONSE
  /\ m.hasRequestId
  /\ m.requestId = requestId
  /\ m.channelId = channelId

Responses(queue) == {i \in 1..Len(queue) : queue[i].data.type = MT_RESPONSE}

\* C10: a Request accepted by the embed (origin valid, channel id equal to
\* the bound one) either starts exactly one handler invocation that owes a
\* Response with the request's requestId and channelId and sends nothing yet,
\* or, with no handler and no onAction, sends exactly that one Response at
\* once; a handler invocation that owes a Response sends exactly that one
\* Response when it settles, by return or by throw, and is then gone; no
\* other step sends a Response.
C10_OneResponsePerRequest ==
  [][ /\ last'.op = "embedMessage" =>
          LET Case(ev) ==
                LET m == ev.data IN
                ( /\ eMounted
                  /\ isValidMessageOrigin(ev.origin, eTargetOrigin, EmbedOrigin)
                  /\ m.type = MT_REQUEST
                  /\ eBound # Null
                  /\ m.channelId = eBound
                  /\ EmbedOnMessage(ev) )
                => \/ /\ toHost' = toHost
                      /\ Len(tasks') = Len(tasks) + 1
                      /\ SubSeq(tasks', 1, Len(tasks)) = tasks
                      /\ tasks'[Len(tasks')].respond
                      /\ tasks'[Len(tasks')].requestId = m.requestId
                      /\ tasks'[Len(tasks')].channelId = m.channelId
                   \/ /\ tasks' = tasks
                      /\ actionHandlers[m.action] = Undefined
                      /\ onAction = Undefined
                      /\ Len(toHost') = Len(toHost) + 1
                      /\ IsResponseFor(toHost'[Len(toHost')].data,
                                       m.requestId, m.channelId)
          IN /\ \A ev \in ForeignToEmbed : Case(ev)
             /\ toEmbed # <<>> => Case(Head(toEmbed))
      /\ last'.op = "handlerSettles" =>
          \A i \in 1..Len(tasks) :
            ( /\ tasks[i].respond
              /\ tasks' = RemoveAt(tasks, i) )
            => /\ Len(toHost') = Len(toHost) + 1
               /\ IsResponseFor(toHost'[Len(toHost')].data,
                                tasks[i].requestId, tasks[i].channelId)
      /\ Cardinality(Responses(toHost')) > Cardinality(Responses(toHost)) =>
          /\ last'.op \in {"embedMessage", "handlerSettles"}
          /\ Cardinality(Responses(toHost')) = Cardinality(Responses(toHost)) + 1
    ]_vars

\* a handler serving a Request has just thrown and its Response is queued
C10_Witness ==
  /\ last.op = "handlerSettles"
  /\ last.branch = "throw"
  /\ toHost # <<>>
  /\ toHost[Len(toHost)].data.type = MT_RESPONSE
  /\ toHost[Len(toHost)].data.requestId = 1
  /\ toHost[Len(toHost)].data.channelId = eBound

\* ----------------------------------------------------------------- C11
\* C11: a future leaves the pending state for resolved or rejected(error)
\* only in a step of the host's message handler, every message event that
\* can have caused the step is a Response carrying that future's requestId on
\* the host's channel, and no other request's future, pending entry or timer
\* changes in that step.
C11_CorrelationById ==
  [][ \A r \in ReqIds :
        ( /\ future[r].state = "pending"
          /\ future'[r].state \in {"resolved", "rejected_error"} )
        => /\ last'.op = "hostMessage"
           /\ \A q \in ReqIds \ {r} :
                /\ future'[q] = future[q]
                /\ (q \in pendingRequests') = (q \in pendingRequests)
                /\ (q \in timers') = (q \in timers)
           /\ LET Case(ev) ==
                     HostOnMessage(ev) =>
                       /\ ev.data.type = MT_RESPONSE
                       /\ ev.data.requestId = r
                       /\ ev.data.channelId = hChannelId
              IN /\ \A ev \in ForeignToHost : Case(ev)
                 /\ toHost # <<>> => Case(Head(toHost))
    ]_vars

\* with two requests in flight the Response of the later one has arrived
\* first and settled it, the earlier one still waits
C11_Witness ==
  /\ last.op = "hostMessage"
  /\ last.settle = {<<2, "resolve">>}
  /\ future[2].state = "resolved"
  /\ future[1].state = "pending"
  /\ 1 \in pendingRequests

\* ----------------------------------------------------------------- C12
\* C12: when the embed accepts a Request for an action that has neither a
\* registered handler nor a fallback callback, it sends at once exactly one
\* Response with success = FALSE, a non-empty error and the request's id, and
\* starts no handler; an Action (carrying no requestId) for such an action
\* sends nothing, starts nothing, logs nothing and is not forwarded; and when
\* that failure Response reaches the host while the request's future is
\* unsettled, the future becomes rejected with the Response's error.
C12_UnhandledAction ==
  [][ /\ (last'.op = "embedMessage" /\ toEmbed # <<>>) =>
          LET ev == Head(toEmbed)
              m == ev.data
          IN
          ( /\ eMounted
            /\ isValidMessageOrigin(ev.origin, eTargetOrigin, EmbedOrigin)
            /\ eBound # Null
            /\ m.channelId = eBound
            /\ m.type \in {MT_REQUEST, MT_ACTION}
            /\ actionHandlers[m.action] = Undefined
            /\ onAction = Undefined
            /\ EmbedDeliver )
          => IF m.type = MT_REQUEST
             THEN /\ tasks' = tasks
                  /\ Len(toHost') = Len(toHost) + 1
                  /\ LET resp == toHost'[Len(toHost')].data IN
                     /\ resp.type = MT_RESPONSE
                     /\ resp.requestId = m.requestId
                     /\ resp.channelId = m.channelId
                     /\ ~resp.success
                     /\ ~Falsy(resp.error)
             ELSE ~m.hasRequestId =>
                  /\ tasks' = tasks
                  /\ toHost' = toHost
                  /\ last'.logged = 0
                  /\ last'.forwarded = <<>>
      /\ (last'.op = "hostMessage" /\ toHost # <<>>) =>
          LET m == Head(toHost).data IN
          ( /\ m.type = MT_RESPONSE
            /\ m.prov.by = "nohandler"
            /\ m.channelId = hChannelId
            /\ m.requestId \in ReqIds
            /\ future[m.requestId].state = "pending"
            /\ HostDeliver )
          => future'[m.requestId] = RejectedError(m.error)
    ]_vars

\* a request for an unhandled action has been rejected with the embed's error
C12_Witness ==
  \E r \in ReqIds :
    /\ last.settle = {<<r, "reject">>}
    /\ future[r] = RejectedError("No handler registered for action")

\* ----------------------------------------------------------------- C13
\* C13: when a handler invocation (registered handler or fallback callback)
\* ends by throwing an error with message e, then, if it served a Request,
\* exactly one Response is sent with success = FALSE, error = e and the
\* request's id and channel; if it served an Action (no requestId), no
\* Response is sent, and a registered handler's error is logged.
C13_HandlerFailure ==
  [][ (last'.op = "handlerSettles" /\ last'.branch = "throw") =>
        \A i \in 1..Len(tasks) :
          tasks' = RemoveAt(tasks, i) =>
            IF tasks[i].respond
            THEN /\ Len(toHost') = Len(toHost) + 1
                 /\ LET resp == toHost'[Len(toHost')].data IN
                    /\ resp.type = MT_RESPONSE
                    /\ resp.requestId = tasks[i].requestId
                    /\ resp.channelId = tasks[i].channelId
                    /\ resp.prov.kind = "throw"
                    /\ resp.error = resp.prov.v
                    /\ ~resp.success
            ELSE /\ toHost' = toHost
                 /\ tasks[i].by \in HandlerIds => last'.logged = 1
    ]_vars

\* a handler serving a Request has thrown an error with a non-empty message
\* and the failure Response carrying that message is queued
C13_Witness ==
  /\ last.op = "handlerSettles"
  /\ last.branch = "throw"
  /\ toHost # <<>>
  /\ LET resp == toHost[Len(toHost)].data IN
     /\ resp.type = MT_RESPONSE
     /\ ~resp.success
     /\ resp.error = "boom"

\* ----------------------------------------------------------------- C14
\* C14: when the host handles a Response on its channel, from the accepted
\* origin, whose requestId has a pending entry, then with success = TRUE the
\* future becomes resolved with the Response's payload, and with
\* success = FALSE it becomes rejected with the Response's error text (with
\* "Unknown error" when the Response carries none), whatever other fields
\* the Response carries.
C14_OutcomeBySuccessFlag ==
  [][ last'.op = "hostMessage" =>
        LET Case(ev) ==
              LET m == ev.data IN
              ( /\ hMounted
                /\ isValidMessageOrigin(ev.origin, hTargetOrigin, HostOrigin)
                /\ m.type = MT_RESPONSE
                /\ m.channelId = hChannelId
                /\ m.requestId \in pendingRequests
                /\ HostOnMessage(ev) )
              => IF m.success
                 THEN future'[m.requestId] = Resolved(m.payload)
                 ELSE /\ future'[m.requestId].state = "rejected_error"
                      /\ future'[m.requestId].error =
                           IF Falsy(m.error) THEN "Unknown error" ELSE m.error
        IN /\ \A ev \in ForeignToHost \cup OddResponsesToHost : Case(ev)
           /\ toHost # <<>> => Case(Head(toHost))
    ]_vars

\* a Response with success = TRUE, an error text and no payload has resolved
\* one request, and a Response with success = FALSE and no error text has
\* rejected another
C14_Witness ==
  \E r1, r2 \in ReqIds :
    /\ future[r1] = Resolved(NoPayload)
    /\ future[r2] = RejectedError("Unknown error")

\* ----------------------------------------------------------------- C15
\* C15: in every state the registry holds, for each action name, the handler
\* given to the latest registerActionHandler call for that name, and nothing
\* if there was no such call or an unregister call for the name followed it;
\* and a Request or Action the embed accepts is served by exactly that
\* handler when there is one, and by no registered handler otherwise.
C15_LastRegistrationWins ==
  /\ [](\A a \in Actions : actionHandlers[a] = registered[a])
  /\ [][ last'.op = "embedMessage" =>
          LET Case(ev) ==
                LET m == ev.data IN
                ( /\ eMounted
                  /\ isValidMessageOrigin(ev.origin, eTargetOrigin, EmbedOrigin)
                  /\ eBound # Null
                  /\ m.channelId = eBound
                  /\ m.type \in {MT_REQUEST, MT_ACTION}
                  /\ EmbedOnMessage(ev) )
                => IF registered[m.action] # Undefined
                   THEN /\ Len(tasks') = Len(tasks) + 1
                        /\ tasks'[Len(tasks')].by = registered[m.action]
                   ELSE \A i \in 1..Len(tasks') :
                          tasks'[i].by \in HandlerIds => i <= Len(tasks) /\ tasks[i] = tasks'[i]
          IN /\ \A ev \in RegistryToEmbed : Case(ev)
             /\ toEmbed # <<>> => Case(Head(toEmbed))
        ]_vars

\* a name registered with h1 was registered again with h2, and a Request for
\* it is being served by h2 while another name has no handler
C15_Witness ==
  /\ actionHandlers["TOGGLE_THEME"] = "h2"
  /\ actionHandlers["GET_DATA"] = Undefined
  /\ last.op = "embedMessage"
  /\ last.branch = "handler"
  /\ tasks # <<>>
  /\ tasks[Len(tasks)].by = "h2"

\* ----------------------------------------------------------------- C16
\* C16: when the embed accepts a Request, or an Action carrying no requestId,
\* then: with a handler registered for the action, exactly one invocation of
\* that handler starts, the fallback callback is not invoked and nothing is
\* sent; with no handler but a fallback callback, exactly one invocation of
\* the fallback starts and nothing is sent; with neither, nothing starts, and
\* a failure Response is sent exactly when the message is a Request.
C16_DispatchPrecedence ==
  [][ last'.op = "embedMessage" =>
        LET Case(ev) ==
              LET m == ev.data
                  handler == actionHandlers[m.action]
                  started == tasks'[Len(tasks')]
              IN
              ( /\ eMounted
                /\ isValidMessageOrigin(ev.origin, eTargetOrigin, EmbedOrigin)
                /\ eBound # Null
                /\ m.channelId = eBound
                /\ m.type \in {MT_REQUEST, MT_ACTION}
                /\ m.type = MT_ACTION => ~m.hasRequestId
                /\ EmbedOnMessage(ev) )
              => IF handler # Undefined
                 THEN /\ tasks' # <<>>
                      /\ tasks' = Append(tasks, started)
                      /\ started.by = handler
                      /\ toHost' = toHost
                 ELSE IF onAction # Undefined
                 THEN /\ tasks' # <<>>
                      /\ tasks' = Append(tasks, started)
                      /\ started.by = "onAction"
                      /\ toHost' = toHost
                 ELSE /\ tasks' = tasks
                      /\ IF m.type = MT_REQUEST
                         THEN /\ Len(toHost') = Len(toHost) + 1
                              /\ toHost'[Len(toHost')].data.type = MT_RESPONSE
                              /\ ~toHost'[Len(toHost')].data.success
                              /\ toHost'[Len(toHost')].data.prov.by = "nohandler"
                         ELSE toHost' = toHost
        IN /\ \A ev \in RegistryToEmbed : Case(ev)
           /\ toEmbed # <<>> => Case(Head(toEmbed))
    ]_vars

\* with both a registered handler and a fallback callback present, a Request
\* has just been handed to the registered handler
C16_Witness ==
  /\ last.op = "embedMessage"
  /\ last.branch = "handler"
  /\ onAction # Undefined
  /\ tasks # <<>>
  /\ tasks[Len(tasks)].by \in HandlerIds
  /\ tasks[Len(tasks)].respond

\* ----------------------------------------------------------------- C17
\* C17: a Resize message the embed receives from an accepted origin on the
\* channel it is bound to is not passed to any handler or callback, the
\* onMessage callback included, logs nothing, sends nothing and changes no
\* embed state.
C17_EmbedDropsResize ==
  [][ last'.op = "embedMessage" =>
        LET Case(ev) ==
              ( /\ eMounted
                /\ isValidMessageOrigin(ev.origin, eTargetOrigin, EmbedOrigin)
                /\ eBound # Null
                /\ ev.data.channelId = eBound
                /\ ev.data.type = MT_RESIZE
                /\ EmbedOnMessage(ev) )
              => /\ last'.forwarded = <<>>
                 /\ last'.logged = 0
                 /\ UNCHANGED embedVars
                 /\ toHost' = toHost
        IN /\ \A ev \in ForeignToEmbed : Case(ev)
           /\ toEmbed # <<>> => Case(Head(toEmbed))
    ]_vars

C19_ResizeConverges ==
  \A h \in Heights :
    <>[](scrollHeight = h) => <>[](iframeHeight = h /\ ~hLoading)

\* the content grew to 620 and the host holds that height, nothing in flight
C19_Witness ==
  /\ scrollHeight = 620
  /\ iframeHeight = 620
  /\ ~hLoading
  /\ toHost = <<>>
  /\ deferred = <<>>

\* ----------------------------------------------------------------- C20
\* C20: the render that attaches the size observer (the first commit with an
\* adopted channel id) posts exactly one Resize, and every size change
\* observed while the observer is attached posts exactly one Resize; each
\* carries the content root's scroll extent at the moment of sending, as a
\* number, and the embed's own channel id.
OneResizeSent ==
  /\ Len(toHost') = Len(toHost) + 1
  /\ SubSeq(toHost', 1, Len(toHost)) = toHost
  /\ LET m == toHost'[Len(toHost')].data IN
       /\ m.type = MT_RESIZE
       /\ m.heightType = "number"
       /\ m.height = scrollHeight'
       /\ m.channelId = eChannelId'
       /\ m.channelId # Null

C20_ResizeEmission ==
  [][ /\ (eMounted /\ eBound = Null /\ eBound' # Null) => OneResizeSent
      /\ (eMounted /\ eBound # Null /\ scrollHeight' # scrollHeight) => OneResizeSent
    ]_vars

\* the observer was attached while the content was 620 high and reported 620;
\* later the content shrank to 300 and that was reported too
C20_Witness ==
  /\ eBound = ChanA
  /\ scrollHeight = DefaultHeight
  /\ iframeHeight = 620
  /\ toHost # <<>>
  /\ toHost[1].data.type = MT_RESIZE
  /\ toHost[1].data.height = DefaultHeight

\* ----------------------------------------------------------------- C21
\* the zero-delay task at the head of the queue runs: if the content root is
\* still mounted it posts exactly one Resize carrying the scroll extent read
\* now and the channel id the task was scheduled with, otherwise nothing
DeferredTaskMeasuresNow ==
  (deferred # <<>> /\ last'.op = "deferredNotify") =>
    IF eMounted
    THEN /\ Len(toHost') = Len(toHost) + 1
         /\ SubSeq(toHost', 1, Len(toHost)) = toHost
         /\ LET m == toHost'[Len(toHost')].data IN
              /\ m.type = MT_RESIZE
              /\ m.heightType = "number"
              /\ m.height = scrollHeight
              /\ m.channelId = Head(deferred)
    ELSE toHost' = toHost

C22_ResizeIdempotent ==
  [][ /\ (eMounted /\ eBound # Null) =>
           LET once == notifyParentAboutHeight(<<>>, eBound)
               twice == notifyParentAboutHeight(once, eBound)
           IN /\ Len(twice) = 2
              /\ twice[1] = twice[2]
              /\ twice[2].data.height = scrollHeight
      /\ ( /\ toHost # <<>>
           /\ last'.op = "hostMessage"
           /\ last'.branch = "resize"
           /\ Head(toHost).data.height = lastResize ) =>
           /\ iframeHeight' = iframeHeight
           /\ hLoading' = hLoading
           /\ iframeHeight' = lastResize
           /\ last'.logged = 0
    ]_vars

\* the host has acted on a Resize that carried 620, the embed's unchanged
\* content extent, and the embed's second Resize, again 620, is the next
\* one the host acts on
C22_Witness ==
  /\ lastResize = 620
  /\ scrollHeight = 620
  /\ iframeHeight = 620
  /\ ~hLoading
  /\ toHost # <<>>
  /\ Head(toHost).data.type = MT_RESIZE
  /\ Head(toHost).data.height = 620
  /\ Head(toHost).data.channelId = hChannelId

\* ----------------------------------------------------------------- C23
\* the verdict the validator is to give, case by case: any origin under the
\* wildcard; the document's own origin for a relative allowed origin; the
\* origin part of an absolute url; the origin itself
OriginExpected(declared, allowed, window) ==
  CASE allowed = Wildcard -> TRUE
    [] allowed = RelativeUrl -> declared = window
    [] allowed = AbsoluteUrl -> declared = ChildOrigin
    [] OTHER -> declared = allowed

\* C23: isValidMessageOrigin is TRUE for every declared origin under the
\* wildcard, and otherwise TRUE exactly for the declared origin that equals
\* the allowed origin resolved against the document's own origin; the hooks'
\* listeners drop an event at the origin check exactly when it is FALSE.
C23_OriginValidator ==
  [][ /\ \A o \in Origins :
           /\ isValidMessageOrigin(o, hTargetOrigin, HostOrigin)
                = OriginExpected(o, hTargetOrigin, HostOrigin)
           /\ isValidMessageOrigin(o, eTargetOrigin, EmbedOrigin)
                = OriginExpected(o, eTargetOrigin, EmbedOrigin)
      /\ \A ev \in OriginProbesToHost :
           HostForeign(ev) =>
             ((last'.branch = "origin")
                = ~OriginExpected(ev.origin, hTargetOrigin, HostOrigin))
      /\ \A ev \in OriginProbesToEmbed :
           EmbedForeign(ev) =>
             ((last'.branch = "origin")
                = ~OriginExpected(ev.origin, eTargetOrigin, EmbedOrigin))
    ]_vars

\* the host, configured with a relative targetOrigin, has just dropped an
\* event from the framed document's origin at the origin check, and the embed
\* is configured with an absolute url as allowed origin
C23_Witness ==
  /\ last.op = "hostMessage"
  /\ last.branch = "origin"
  /\ hProvidedOrigin = RelativeUrl
  /\ eTargetOrigin = AbsoluteUrl

\* ----------------------------------------------------------------- C24
\* C24: when the host is given no targetOrigin, every message it has posted
\* to the frame (init, Data, Action, Request) was posted with the origin of
\* the configured url, resolved against the host page's origin, as its target
\* origin, and none with the wildcard.
C24_HostTargetOrigin ==
  Falsy(hProvidedOrigin) =>
    \A i \in 1..Len(toEmbed) :
      /\ toEmbed[i].target = UrlOrigin(hUrl, HostOrigin)
      /\ toEmbed[i].target \in Origins
      /\ toEmbed[i].target # Wildcard

\* with a relative url and no override, a Request is in flight, posted with
\* the host page's own origin as target
C24_Witness ==
  /\ hProvidedOrigin = Undefined
  /\ hUrl = RelativeUrl
  /\ toEmbed # <<>>
  /\ toEmbed[1].data.type = MT_REQUEST
  /\ toEmbed[1].target = HostOrigin

\* ----------------------------------------------------------------- C25
\* C25: at first mount the host's channel id is the channelId prop if one is
\* given and a generated id otherwise; no later step changes it, re-renders
\* with another channelId prop included; every message the host has posted,
\* the init message's payload included, carries that id.
C25_HostChannelStable ==
  /\ hChannelId = (IF hProvidedChannelId \in {Undefined, ""} THEN GeneratedChannel
                   ELSE hProvidedChannelId)
  /\ [][hChannelId' = hChannelId]_vars
  /\ [](\A i \in 1..Len(toEmbed) :
          LET m == toEmbed[i].data IN
          /\ m.channelId = hChannelId
          /\ m.payload.init => m.payload.channelId = hChannelId)

\* mounted without a channelId prop and later re-rendered with "b": the init
\* message in flight carries the generated id
C25_Witness ==
  /\ hProvidedChannelId = ChanB
  /\ hChannelId = GeneratedChannel
  /\ toEmbed # <<>>
  /\ toEmbed[1].data.payload.init
  /\ toEmbed[1].data.payload.channelId = GeneratedChannel

\* ----------------------------------------------------------------- C26
\* C26: once the embed holds a channel id, no step changes it: neither a
\* later message of any kind nor a second init message with another
\* channelId that arrives before the listener is re-bound.
C26_EmbedChannelImmutable ==
  [][eChannelId # Null => eChannelId' = eChannelId]_vars

\* the embed holds a channel id that its bound listener does not know yet
C26_Witness ==
  /\ eMounted
  /\ eChannelId = ChanA
  /\ eBound = Null
  /\ last.op = "embedMessage"
  /\ last.branch = "init"

\* ----------------------------------------------------------------- C27
\* C27: every message in flight carries a defined channelId: what the host
\* posted carries the host's channel id, what the embed posted carries a
\* channel id that is neither null nor undefined nor empty, and while the
\* embed holds no channel id it has posted nothing and posts nothing.
C27_EveryMessageHasChannel ==
  /\ [](\A i \in 1..Len(toEmbed) :
          /\ toEmbed[i].data.channelId = hChannelId
          /\ ~Falsy(toEmbed[i].data.channelId))
  /\ [](\A i \in 1..Len(toHost) :
          /\ ~Falsy(toHost[i].data.channelId)
          /\ toHost[i].data.type \in {MT_RESIZE, MT_DATA, MT_RESPONSE})
  /\ [](eChannelId = Null => toHost = <<>>)
  /\ [][eChannelId = Null => toHost' = toHost]_vars

\* the embed called sendData before adopting a channel id and nothing was
\* posted
C27_Witness ==
  /\ last.op = "embedSendData"
  /\ eChannelId = Null
  /\ toHost = <<>>
  /\ toEmbed # <<>>
  /\ toEmbed[1].data.channelId = ChanA

\* ----------------------------------------------------------------- C28
\* C28: while the embed holds no channel id, a Data message from an accepted
\* origin whose payload has init set and a channelId makes the embed adopt
\* exactly that channelId and is not forwarded to onMessage; every other
\* message event leaves the channel id unset; in both cases no handler is
\* invoked and nothing is posted.
C28_InitHandshake ==
  [][ (last'.op = "embedMessage" /\ eMounted /\ eChannelId = Null) =>
        LET Case(ev) ==
              LET m == ev.data
                  accepted == isValidMessageOrigin(ev.origin, eTargetOrigin, EmbedOrigin)
                  isInit == /\ m.type = MT_DATA
                            /\ m.payload.init
                            /\ m.payload.channelId \in ChannelIds
              IN EmbedForeign(ev) =>
                   /\ eChannelId' = IF accepted /\ isInit THEN m.payload.channelId
                                    ELSE Null
                   /\ last'.forwarded = <<>>
                   /\ tasks' = tasks
                   /\ toHost' = toHost
        IN \A ev \in ForeignToEmbed \cup OddInitsToEmbed : Case(ev)
    ]_vars

\* with a handler registered, the embed has just adopted channel id "b" from
\* an init message
C28_Witness ==
  /\ last.op = "embedMessage"
  /\ last.branch = "init"
  /\ eChannelId = ChanB
  /\ eBound = Null
  /\ actionHandlers["TOGGLE_THEME"] = "h1"
  /\ tasks = <<>>
  /\ toHost = <<>>

\* ----------------------------------------------------------------- C29
\* an init message was appended to the queue for the frame in this step
InitPosted ==
  /\ Len(toEmbed') = Len(toEmbed) + 1
  /\ toEmbed'[Len(toEmbed')].data.type = MT_DATA
  /\ toEmbed'[Len(toEmbed')].data.payload.init

\* C29: an init message is in flight only after the frame's load event has
\* fired; every load event arms exactly one deferred send and posts nothing
\* itself; every deferred send that runs posts exactly one init message
\* {init: true, channelId} with the host's channel id if the frame still
\* exists and nothing otherwise; no other step posts an init message.
C29_InitEmission ==
  /\ [](\A i \in 1..Len(toEmbed) : (toEmbed[i].data.payload.init => loaded))
  /\ [][ /\ ((~loaded /\ loaded') \/ last'.op = "frameLoad") =>
              /\ initTimers' = initTimers + 1
              /\ ~InitPosted
         /\ (initTimers' > initTimers) =>
              ((~loaded /\ loaded') \/ last'.op = "frameLoad")
         /\ (initTimers' < initTimers) =>
              /\ initTimers' = initTimers - 1
              /\ IF hFrame
                 THEN /\ InitPosted
                      /\ SubSeq(toEmbed', 1, Len(toEmbed)) = toEmbed
                      /\ toEmbed'[Len(toEmbed')].data.channelId = hChannelId
                      /\ toEmbed'[Len(toEmbed')].data.payload.channelId = hChannelId
                 ELSE toEmbed' = toEmbed
         /\ (initTimers' >= initTimers) => ~InitPosted
       ]_vars

\* the host was unmounted while an init send was armed; the timer has just
\* run and nothing was posted
C29_Witness ==
  /\ last.op = "initTimer"
  /\ last.branch = "noFrame"
  /\ loaded
  /\ ~hMounted
  /\ initTimers = 0
  /\ toEmbed = <<>>

\* ----------------------------------------------------------------- C30
\* C30: a message event whose payload is no well-formed message (null, a
\* primitive, no type or an unknown type, a Resize whose height is not a
\* number) ends with the listener returning: an exception, if any, is caught
\* inside it; on the host, height, loading flag, channel id, pending map,
\* timers and futures stay as they were; on the embed, channel id, handler
\* registry and running handlers stay as they were and nothing is posted.
C30_MalformedDropped ==
  [][ /\ last'.op = "hostMessage" =>
           \A ev \in MalformedToHost :
             HostForeign(ev) =>
               /\ UNCHANGED <<iframeHeight, hLoading, hChannelId, pendingRequests,
                              timers, future, settleCalls>>
               /\ last'.settle = {}
               /\ last'.branch \in {"threw", "channel", "default", "resizeIgnored"}
               /\ (last'.logged = 1) = IsNull(ev.data)
      /\ last'.op = "embedMessage" =>
           \A ev \in MalformedToEmbed :
             EmbedForeign(ev) =>
               /\ UNCHANGED <<eChannelId, eBound, actionHandlers, tasks, toHost>>
               /\ last'.branch \in {"threw", "channel", "default"}
               /\ (last'.logged = 1) = IsNull(ev.data)
    ]_vars

\* while a request is pending the host has just ignored a Resize whose
\* height is not a number; the embed holds a channel id and a handler
C30_Witness ==
  /\ last.op = "hostMessage"
  /\ last.branch = "resizeIgnored"
  /\ pendingRequests # {}
  /\ iframeHeight = DefaultHeight
  /\ eBound = ChanA
  /\ actionHandlers["TOGGLE_THEME"] # Undefined

\* ----------------------------------------------------------------- C32
\* C32: a Data message that passes the origin and channel filters of the
\* listener it is delivered to, other than an init message taken by an embed
\* listener bound to no channel id, is given to that side's onMessage
\* callback once and as received; the host's height, loading flag, pending
\* map, timers and futures and the embed's channel id and running handlers
\* stay as they were and nothing is posted.
C32_DataForwarded ==
  [][ /\ ( /\ last'.op = "hostMessage"
           /\ toHost # <<>>
           /\ toHost' = Tail(toHost)
           /\ hMounted
           /\ isValidMessageOrigin(Head(toHost).origin, hTargetOrigin, HostOrigin)
           /\ Head(toHost).data.type = MT_DATA
           /\ Head(toHost).data.channelId = hChannelId ) =>
           /\ last'.forwarded = <<Head(toHost).data>>
           /\ last'.settle = {}
           /\ last'.logged = 0
           /\ UNCHANGED <<iframeHeight, hLoading, pendingRequests, timers, future,
                          settleCalls, toEmbed>>
      /\ ( /\ last'.op = "embedMessage"
           /\ toEmbed # <<>>
           /\ toEmbed' = Tail(toEmbed)
           /\ eMounted
           /\ isValidMessageOrigin(Head(toEmbed).origin, eTargetOrigin, EmbedOrigin)
           /\ Head(toEmbed).data.type = MT_DATA
           /\ eBound # Null
           /\ Head(toEmbed).data.channelId = eBound ) =>
           /\ last'.forwarded = <<Head(toEmbed).data>>
           /\ last'.logged = 0
           /\ UNCHANGED <<eChannelId, eBound, tasks, actionHandlers, toHost>>
    ]_vars

\* while a request is pending the host has just given its onMessage callback
\* the Data message the embed sent, and the embed holds the host's channel id
C32_Witness ==
  /\ last.op = "hostMessage"
  /\ last.branch = "default"
  /\ Len(last.forwarded) = 1
  /\ last.forwarded[1].type = MT_DATA
  /\ last.forwarded[1].payload = PlainPayload("v1")
  /\ last.forwarded[1].prov.by = "embed"
  /\ pendingRequests # {}
  /\ eBound = hChannelId

\* ----------------------------------------------------------------- C33
\* C33: a Response that carries the request id of a pending request and a
\* channelId other than the host's settles nothing: the pending map, the
\* armed timers and every future stay as they were, and the request is still
\* pending with its timer armed afterwards.
C33_ForeignChannelResponse ==
  [][ last'.op = "hostMessage" =>
        \A ev \in CrossTalkResponses :
          ( /\ ev.data.channelId # hChannelId
            /\ ev.data.requestId \in pendingRequests
            /\ HostForeign(ev) ) =>
            /\ UNCHANGED <<pendingRequests, timers, future, settleCalls>>
            /\ ev.data.requestId \in pendingRequests'
            /\ ev.data.requestId \in timers'
            /\ future'[ev.data.requestId].state = "pending"
            /\ last'.settle = {}
    ]_vars

\* every request is pending with its timer armed and the host has just
\* dropped, at the channel check, a Response carrying one of their ids
C33_Witness ==
  /\ last.op = "hostMessage"
  /\ last.branch = "channel"
  /\ pendingRequests = ReqIds
  /\ timers = ReqIds
  /\ \A r \in ReqIds : future[r].state = "pending"

\* ----------------------------------------------------------------- C34
\* C34: sendRequest called while the host has no frame to post to posts
\* nothing, registers the pending entry and arms the timer, and the future it
\* returned is in the end rejected with the timeout error, no earlier than
\* timeoutMs after the call.
C34_NoFrameRequest ==
  /\ [](~hFrame /\ toEmbed = <<>>)
  /\ [][ \A r \in ReqIds :
            (future[r].state = "unissued" /\ future'[r].state = "pending") =>
              /\ r \in pendingRequests'
              /\ r \in timers'
              /\ toEmbed' = toEmbed
       ]_vars
  /\ \A r \in ReqIds :
       (future[r].state = "pending")
         ~> /\ future[r] = RejectedTimeout(requestCall[r].timeoutMs)
            /\ now >= Deadline(r)

\* a request made without a frame is still pending at the end of the clock,
\* with no timer armed and no entry in the pending map
C34_Witness ==
  /\ ~hFrame
  /\ hMounted
  /\ future[1].state = "pending"
  /\ 1 \notin timers
  /\ 1 \notin pendingRequests
  /\ now >= Deadline(1)
  /\ toEmbed = <<>>

\* ----------------------------------------------------------------- C35
\* a Resize event the host is to act on: a listener is registered, the origin
\* is accepted, the channel id is the host's and the height is a number
ResizeAccepted(ev) ==
  /\ hMounted
  /\ isValidMessageOrigin(ev.origin, hTargetOrigin, HostOrigin)
  /\ ev.data.type = MT_RESIZE
  /\ ev.data.channelId = hChannelId
  /\ ev.data.heightType = "number"

\* C35: the host's height starts as defaultHeight; a delivered Resize with
\* an accepted origin, the host's channel id and a numeric height makes it
\* that height; every other message event and every other operation leaves
\* it as it is.  So it always is the height of the last such Resize, or
\* defaultHeight when there was none.
C35_HostHeight ==
  /\ iframeHeight = DefaultHeight
  /\ [][ /\ last'.op = "hostMessage" =>
              \A ev \in ForeignToHost :
                HostForeign(ev) =>
                  iframeHeight' = IF ResizeAccepted(ev) THEN ev.data.height
                                  ELSE iframeHeight
         /\ (last'.op = "hostMessage" /\ toHost # <<>> /\ toHost' = Tail(toHost)) =>
              iframeHeight' = IF ResizeAccepted(Head(toHost))
                              THEN Head(toHost).data.height
                              ELSE iframeHeight
         /\ last'.op # "hostMessage" => iframeHeight' = iframeHeight
       ]_vars

\* the host holds the 620 of an earlier Resize and has just ignored a Resize
\* on its channel whose height is not a number
C35_Witness ==
  /\ last.op = "hostMessage"
  /\ last.branch = "resizeIgnored"
  /\ iframeHeight = 620
  /\ lastResize = 620

\* ----------------------------------------------------------------- C36
\* C36: the host's loading flag starts true; a delivered Resize with an
\* accepted origin, the host's channel id and a numeric height makes it
\* false; no step makes it true again, not even another load of the frame.
\* So it is true exactly while the host has acted on no Resize.
C36_LoadingMonotone ==
  /\ hLoading = TRUE
  /\ [](hLoading = (lastResize = 0))
  /\ [][ /\ last'.op = "hostMessage" =>
              \A ev \in ForeignToHost :
                HostForeign(ev) =>
                  hLoading' = (hLoading /\ ~ResizeAccepted(ev))
         /\ (last'.op = "hostMessage" /\ toHost # <<>> /\ toHost' = Tail(toHost)) =>
              hLoading' = (hLoading /\ ~ResizeAccepted(Head(toHost)))
         /\ last'.op # "hostMessage" => hLoading' = hLoading
         /\ ~hLoading => ~hLoading'
       ]_vars

\* the frame has just loaded its document again after the host acted on a
\* Resize, and the loading flag is still false
C36_Witness ==
  /\ last.op = "frameLoad"
  /\ last.branch = "reload"
  /\ ~hLoading
  /\ lastResize # 0
  /\ eChannelId = Null

\* ----------------------------------------------------------------- C37
\* C37: sendData and sendAction post a message without a request id and
\* leave the pending map, the timers and the futures as they are; the embed,
\* handling a Data or such an Action, posts nothing, and the handler or
\* onAction invocation it starts answers nothing when it returns or throws.
C37_FireAndForget ==
  [][ /\ ( /\ Len(toEmbed') = Len(toEmbed) + 1
           /\ toEmbed'[Len(toEmbed')].data.type \in {MT_DATA, MT_ACTION} ) =>
           /\ ~toEmbed'[Len(toEmbed')].data.hasRequestId
           /\ UNCHANGED <<pendingRequests, timers, future, requestCall>>
      /\ ( /\ last'.op = "embedMessage"
           /\ toEmbed # <<>>
           /\ Head(toEmbed).data.type \in {MT_DATA, MT_ACTION} ) =>
           /\ toHost' = toHost
           /\ Len(tasks') > Len(tasks) => ~tasks'[Len(tasks')].respond
      /\ last'.op = "handlerSettles" =>
           \A i \in 1..Len(tasks) :
             (tasks' = RemoveAt(tasks, i) /\ ~tasks[i].respond) => toHost' = toHost
    ]_vars

\* the handler registered for an Action's name has just thrown: the error is
\* logged, nothing is posted to the host, and the host has nothing pending
C37_Witness ==
  /\ last.op = "handlerSettles"
  /\ last.branch = "throw"
  /\ last.logged = 1
  /\ toHost = <<>>
  /\ pendingRequests = {}
  /\ timers = {}

\* ------------------------------------------------------------------ C40
\* C40: calling the unregister function that registerActionHandler returned
\* for one handler leaves in place every handler of another registration: a
\* name that now holds another handler still holds it after the call.
C40_UnregisterOwnOnly ==
  [][ last'.op = "unregister" =>
        \A a \in Actions :
          actionHandlers[a] \notin {Undefined, last'.branch}
            => actionHandlers'[a] = actionHandlers[a]
    ]_vars

\* h1 was registered for GET_DATA, then h2 under the same name, and the
\* unregister function of h1 has just been called
C40_Witness ==
  /\ last.op = "unregister"
  /\ last.branch = "h1"
  /\ <<"GET_DATA", "h2">> \in keptUnregister
  /\ <<"GET_DATA", "h1">> \notin keptUnregister
  /\ actionHandlers["GET_DATA"] = Undefined
  /\ actionHandlers["TOGGLE_THEME"] = Undefined

\* ------------------------------------------------------------------ C38
\* C38: in useIframeContentResize and in the combined hook's child mode, with
\* a target origin other than "*", a message event from another origin is
\* passed to no subscribed callback.
C38_ChildOriginChecked ==
  [][ \A ev \in VariantEvents :
        ( /\ ~VariantIsHost(rHook)
          /\ rTarget # Wildcard
          /\ ev.origin # rTarget
          /\ last'.op = "variantMessage"
          /\ VariantOnMessage(ev) )
        => last'.forwarded = <<>>
    ]_vars

\* the combined hook in child mode, configured for the host's origin, has just
\* passed a message to its two subscribers
C38_Witness ==
  /\ rHook = HookChild
  /\ rTarget = HostOrigin
  /\ rMounted
  /\ last.op = "variantMessage"
  /\ last.branch = "callbacks"
  /\ Len(last.forwarded) = 2

\* ------------------------------------------------------------------ C39
\* C39: a message received on the BroadcastChannel leaves the host's height
\* and loading flag as they were and is passed to the subscribed callbacks
\* only if its type is data or action; what the window listener does with a
\* message event is fixed by the event, the origin and channel configuration
\* and the subscribed callbacks, whether a BroadcastChannel is open or not;
\* neither listener opens or closes the channel.
C39_BroadcastAdditive ==
  [][ LET Accepted(ev) ==
            /\ rMounted
            /\ ev.origin = UrlOrigin(rTarget, HostOrigin)
            /\ ~IsNull(ev.data)
            /\ Falsy(rChannelId) \/ ev.data.channelId = rChannelId
          Expected(ev) ==
            IF Accepted(ev) /\ ev.data.type \in {MT_DATA, MT_ACTION}
            THEN /\ last'.forwarded = [i \in 1..Len(messageCallbacks) |-> ev.data]
                 /\ UNCHANGED <<rHeight, rLoading>>
            ELSE IF Accepted(ev) /\ ev.data.type = MT_RESIZE
                    /\ ev.data.heightType = "number"
            THEN /\ last'.forwarded = <<>>
                 /\ rHeight' = ev.data.height
                 /\ rLoading' = FALSE
            ELSE /\ last'.forwarded = <<>>
                 /\ UNCHANGED <<rHeight, rLoading>>
      IN
      /\ last'.op = "broadcast" =>
           /\ UNCHANGED <<rHeight, rLoading, broadcastChannel>>
           /\ \A i \in 1..Len(last'.forwarded) :
                last'.forwarded[i].type \in {MT_DATA, MT_ACTION}
           /\ broadcastChannel # "open" => last'.forwarded = <<>>
      /\ last'.op = "variantMessage" =>
           /\ UNCHANGED broadcastChannel
           /\ \A ev \in VariantEvents : VariantOnMessage(ev) => Expected(ev)
    ]_vars

\* useIframeResize, still loading at its default height, has just passed a
\* broadcast message to its two subscribers
C39_Witness ==
  /\ rHook = HookResize
  /\ broadcastChannel = "open"
  /\ last.op = "broadcast"
  /\ last.branch = "callbacks"
  /\ Len(last.forwarded) = 2
  /\ rLoading
  /\ rHeight = DefaultHeight

\* ------------------------------------------------------------------ C31
\* C31: once a hook's component is unmounted, no message event, broadcast,
\* size change or timer makes the hook call a handler or callback, change its
\* height or loading state, or post a message.  Stated for the host hook, the
\* embed hook and useIframeResize.
C31_ReleasedOnTeardown ==
  [][ /\ ~hMounted =>
           /\ Len(toEmbed') <= Len(toEmbed)
           /\ UNCHANGED <<iframeHeight, hLoading>>
           /\ last'.op \in {"hostMessage", "initTimer"} =>
                /\ last'.settle = {}
                /\ last'.forwarded = <<>>
                /\ last'.logged = 0
      /\ ~eMounted =>
           /\ Len(toHost') <= Len(toHost)
           /\ UNCHANGED <<eChannelId, tasks, scrollHeight>>
           /\ last'.op \in {"embedMessage", "deferredNotify"} =>
                /\ last'.forwarded = <<>>
                /\ last'.logged = 0
      /\ ~rMounted =>
           /\ UNCHANGED <<rHeight, rLoading>>
           /\ broadcastChannel # "open"
           /\ last'.op \in {"variantMessage", "broadcast"} =>
                /\ last'.forwarded = <<>>
                /\ last'.logged = 0
    ]_vars

\* all three hooks are unmounted with an init timer of the host still armed,
\* a zero-delay notification of the embed still scheduled, a subscriber still
\* in the list, and a broadcast has just arrived
C31_Witness ==
  /\ ~hMounted
  /\ ~eMounted
  /\ ~rMounted
  /\ initTimers > 0
  /\ deferred # <<>>
  /\ Head(deferred) # Null
  /\ messageCallbacks # <<>>
  /\ last.op = "broadcast"

====
